---- MODULE Spec2Model ----
(***************************************************************************)
(* Version-control core of GiTrip (server/server.js, server/merge.js):     *)
(* the commit store, the branch registry, merge-base discovery, the        *)
(* three-way merge of trip snapshots and the request handlers that create  *)
(* commits and move branch heads.                                          *)
(*                                                                         *)
(* Commit ids (uuid() in the code) are the naturals 1, 2, ... in order of  *)
(* allocation; NULL stands for the falsy ids of the code (null, undefined, *)
(* the empty string).  JSON objects are functions over their keys, JSON    *)
(* scalars are strings, and JSON.stringify equality is structural          *)
(* equality (objects are taken with their keys in one canonical order).    *)
(***************************************************************************)
EXTENDS Integers, Sequences, FiniteSets, Bags, TLC

VARIABLES commits, branches, inflight, last

vars == <<commits, branches, inflight, last>>

(* ------------------------------ bounds -------------------------------- *)

\* uuid() allocations for commits in the request model
MaxCommits == 3
\* uuid() allocations for commits with the single-parent writers alone
MaxCasCommits == 3
\* uuid() allocations for commits with branches, commits and merges
MaxMergeCommits == 3
\* uuid() allocations for commits with merges resolved through the merge page
MaxPageCommits == 3
\* uuid() allocations for commits in the end-to-end merge scenario
MaxScenarioCommits == 4
\* commits of a drawn commit graph (merge-base checks)
MaxGraph == 3
\* uuid() allocations for commits with every writer and the key-change flag
MaxKeyCommits == 2
\* concurrently suspended async handlers (easy-add, planner run)
MaxInflight == 1

\* the stops of a day of the plans mergeSnapshots is given
MaxDayStops == 2
\* the stops of the plans computeKeyChange is given
MaxKeyStops == 9
\* commits in the stores the traversal loops are stepped on
MaxLoopGraph == 2

(* ---------------------------- commit store ---------------------------- *)

NULL == 0

\* an id that no stored commit has (a caller-supplied fromCommitId)
Unknown == -1

\* a field the request body does not carry (undefined)
Absent == -2

NoRow == [missing |-> TRUE]

\* getCommit.get(id): the row, or nothing
getCommitRowIn(store, id) ==
  IF id \in 1..Len(store) THEN store[id] ELSE NoRow

getCommitRow(id) == getCommitRowIn(commits, id)

parentsOf(row) == IF row = NoRow THEN <<>> ELSE row.parents

RECURSIVE ancestorsLoop(_, _, _)
ancestorsLoop(store, q, seen) ==
  IF q = <<>> THEN seen
  ELSE LET cur == Head(q) IN
       IF cur = NULL \/ cur \in seen
       THEN ancestorsLoop(store, Tail(q), seen)
       ELSE ancestorsLoop(store,
                          Tail(q) \o parentsOf(getCommitRowIn(store, cur)),
                          seen \cup {cur})

\* BFS over parent edges from startId
ancestorsSetIn(store, startId) == ancestorsLoop(store, <<startId>>, {})

ancestorsSet(startId) == ancestorsSetIn(commits, startId)

RECURSIVE lcaLoop(_, _, _, _)
lcaLoop(store, A, q, visited) ==
  IF q = <<>> THEN NULL
  ELSE LET cur == Head(q) IN
       IF cur = NULL \/ cur \in visited
       THEN lcaLoop(store, A, Tail(q), visited)
       ELSE IF cur \in A THEN cur
       ELSE lcaLoop(store, A,
                    Tail(q) \o parentsOf(getCommitRowIn(store, cur)),
                    visited \cup {cur})

\* a findLCA that walks first parents only
findLCAFirstParentIn(store, aId, bId) ==
  IF aId = NULL \/ bId = NULL THEN NULL
  ELSE LET firstOnly == [i \in 1..Len(store) |->
                           [store[i] EXCEPT !.parents =
                              IF Len(@) > 1 THEN <<@[1]>> ELSE @]]
       IN lcaLoop(firstOnly, ancestorsSetIn(firstOnly, aId), <<bId>>, {})

\* a findLCA that answers b when the histories are disjoint
findLCAOrTheirsIn(store, aId, bId) ==
  IF aId = NULL \/ bId = NULL THEN NULL
  ELSE LET met(base) == IF base = NULL THEN bId ELSE base
       IN met(lcaLoop(store, ancestorsSetIn(store, aId), <<bId>>, {}))

\* a findLCA whose BFS starts at the parents of b
findLCASkipStartIn(store, aId, bId) ==
  IF aId = NULL \/ bId = NULL THEN NULL
  ELSE lcaLoop(store, ancestorsSetIn(store, aId),
               parentsOf(getCommitRowIn(store, bId)), {})

\* findLCA: ancestors of a, then BFS from b until one of them is met
findLCAIn(store, aId, bId) ==
  IF aId = NULL \/ bId = NULL THEN NULL
  ELSE lcaLoop(store, ancestorsSetIn(store, aId), <<bId>>, {})

findLCA(aId, bId) == findLCAIn(commits, aId, bId)

(* ------------------------- JSON value helpers ------------------------- *)

\* reading a key an object does not have (undefined)
Undef == "#undefined"

\* the JSON value null where a string may stand
NullVal == "#null"

\* a null or absent plan
NullPlan == [null |-> TRUE]

\* a stop that a keyed lookup did not find (undefined)
NoStop == [absent |-> TRUE]

Get(o, k) == IF k \in DOMAIN o THEN o[k] ELSE Undef

\* JavaScript truthiness of a string-or-missing value
Truthy(v) == v \notin {Undef, NullVal, ""}

\* a || b
Or(a, b) == IF Truthy(a) THEN a ELSE b

\* {...a, ...b}
Spread(a, b) ==
  [k \in DOMAIN a \cup DOMAIN b |-> IF k \in DOMAIN b THEN b[k] ELSE a[k]]

\* an object without key k
Without(o, k) == [x \in DOMAIN o \ {k} |-> o[x]]

\* o with o[k] = v, where assigning undefined leaves no key after JSON.stringify
With(o, k, v) ==
  IF v = Undef THEN Without(o, k)
  ELSE [x \in DOMAIN o \cup {k} |-> IF x = k THEN v ELSE o[x]]

\* String(x).trim() on the names of the model
Trim(n) ==
  CASE n = " Louvre " -> "Louvre"
    [] n = Undef -> ""
    [] OTHER -> n

\* toLowerCase() on the names of the model
Lower(n) ==
  CASE n = "Louvre" -> "louvre"
    [] n = "Eiffel" -> "eiffel"
    [] n = "Orsay" -> "orsay"
    [] n = "Marais" -> "marais"
    [] OTHER -> n

\* Number(v).toFixed(5) on the coordinates of the model, 'na' when not finite
Fixed5(v) ==
  CASE v = "48.86" -> "48.86000"
    [] v = "48.860001" -> "48.86000"
    [] v = "2.33" -> "2.33000"
    [] v \in {Undef, NullVal, ""} -> "na"
    [] OTHER -> v

\* the elements of a sequence, first occurrences only, in order
RECURSIVE Dedup(_)
Dedup(s) ==
  IF s = <<>> THEN <<>>
  ELSE LET r == Dedup(SubSeq(s, 1, Len(s) - 1)) x == s[Len(s)] IN
       IF \E i \in 1..Len(r) : r[i] = x THEN r ELSE Append(r, x)

Range(s) == {s[i] : i \in 1..Len(s)}

\* Object.keys order of the file maps of the model
PathOrder == <<"notes.md", "budget.md">>

KeysOf(S) == SelectSeq(PathOrder, LAMBDA k : k \in S)

(* ------------------------------ diffMaps ------------------------------ *)

\* a diffKey that reports every key both sides changed as a conflict
diffKeyBothConflict(base, left, right, k) ==
  IF Get(base, k) # Get(left, k) /\ Get(base, k) # Get(right, k)
  THEN <<[key |-> k, side |-> "BOTH", left |-> Get(left, k),
          right |-> Get(right, k)]>>
  ELSE IF Get(base, k) # Get(left, k)
  THEN <<[key |-> k, side |-> "L", value |-> Get(left, k)]>>
  ELSE IF Get(base, k) # Get(right, k)
  THEN <<[key |-> k, side |-> "R", value |-> Get(right, k)]>>
  ELSE <<>>

\* one change descriptor of diffMaps for key k, or none
diffKey(base, left, right, k) ==
  LET b == Get(base, k)
      l == Get(left, k)
      r == Get(right, k)
      changedL == b # l
      changedR == b # r
  IN IF changedL /\ ~changedR THEN <<[key |-> k, side |-> "L", value |-> l]>>
     ELSE IF ~changedL /\ changedR THEN <<[key |-> k, side |-> "R", value |-> r]>>
     ELSE IF changedL /\ changedR /\ l = r
          THEN <<[key |-> k, side |-> "L", value |-> l]>>
     ELSE IF changedL /\ changedR
          THEN <<[key |-> k, side |-> "BOTH", left |-> l, right |-> r]>>
     ELSE <<>>

RECURSIVE diffKeys(_, _, _, _)
diffKeys(base, left, right, ks) ==
  IF ks = <<>> THEN <<>>
  ELSE diffKey(base, left, right, Head(ks)) \o diffKeys(base, left, right, Tail(ks))

diffMaps(base, left, right) ==
  diffKeys(base, left, right,
           KeysOf(DOMAIN base \cup DOMAIN left \cup DOMAIN right))

(* --------------------- plan structure comparison ---------------------- *)

daysOf(plan) == IF plan # NullPlan /\ "days" \in DOMAIN plan THEN plan.days ELSE <<>>

stopsOf(day) == IF "stops" \in DOMAIN day THEN day.stops ELSE <<>>

\* the fingerprint entry of one stop: date + (name or id)
planKey(day, s) ==
  LET date == Or(Get(day, "date"), "")
      name == Trim(Or(Get(s, "name"), ""))
      id == Or(Get(s, "id"), "")
  IN date \o "::" \o Or(name, id)

planKeySet(plan) ==
  UNION {{planKey(d, st) : st \in Range(stopsOf(d))} : d \in Range(daysOf(plan))}

setsEqual(a, b) == Cardinality(a) = Cardinality(b) /\ \A v \in a : v \in b

\* a similarity test that only sees plans with no stop in common as divergent
jaccardDisjointOnly(a, b) == (a # {} \/ b # {}) /\ a \cap b = {}

\* jaccard(a, b) < 0.4, on integers: 5 * |a /\ b| < 2 * |a \/ b|
jaccardBelowThreshold(a, b) ==
  IF a = {} /\ b = {} THEN FALSE
  ELSE LET inter == Cardinality(a \cap b)
           union == Cardinality(a) + Cardinality(b) - inter
       IN 5 * inter < 2 * union


(* ---------------------------- mergeSnapshots -------------------------- *)

EmptyObj == [k \in {} |-> ""]

objOf(x) == IF x = NoStop \/ x = NullPlan THEN EmptyObj ELSE x

\* the key byKey files a stop under: its id, else a synthetic one
stableId(x, fallbackDayId) ==
  IF Truthy(Get(x, "id")) THEN x.id
  ELSE "auto:" \o Or(Lower(Trim(Or(Get(x, "name"), ""))), "stop")
       \o "|lat:" \o Fixed5(Get(x, "lat"))
       \o "|lng:" \o Fixed5(Get(x, "lng"))
       \o "|day:" \o Or(fallbackDayId, "na")

\* the stops of byKey, each with the id byKey writes back onto it
keyedStops(arr, fallbackDayId) ==
  [i \in 1..Len(arr) |->
     IF Truthy(Get(arr[i], "id")) THEN arr[i]
     ELSE With(arr[i], "id", stableId(arr[i], fallbackDayId))]

\* Object.keys(byKey(arr))
stopKeys(ks) == Dedup([i \in 1..Len(ks) |-> ks[i].id])

\* byKey(arr)[sid]: the last stop filed under sid, or undefined
stopAt(ks, sid) ==
  IF \E i \in 1..Len(ks) : ks[i].id = sid
  THEN ks[CHOOSE i \in 1..Len(ks) :
            ks[i].id = sid /\ \A j \in (i + 1)..Len(ks) : ks[j].id # sid]
  ELSE NoStop

\* a timeEq that compares the departures only
timeEqDepartOnly(a, b) == Get(objOf(a), "depart") = Get(objOf(b), "depart")

\* a?.arrive === b?.arrive && a?.depart === b?.depart
timeEq(a, b) ==
  /\ Get(objOf(a), "arrive") = Get(objOf(b), "arrive")
  /\ Get(objOf(a), "depart") = Get(objOf(b), "depart")

present(x) == IF x = NoStop THEN <<>> ELSE <<x>>

\* one iteration of the per-stop loop: the stops pushed and the conflicts raised
mergeStop(dayId, sid, bs, os, ts) ==
  LET changedO == bs # os
      changedT == bs # ts
      conflict(type) == [type |-> type, dayId |-> dayId, stopId |-> sid,
                         base |-> bs, ours |-> os, theirs |-> ts]
  IN IF changedO /\ ~changedT THEN [stops |-> present(os), conflicts |-> <<>>]
     ELSE IF ~changedO /\ changedT THEN [stops |-> present(ts), conflicts |-> <<>>]
     ELSE IF ~changedO /\ ~changedT THEN [stops |-> present(bs), conflicts |-> <<>>]
     ELSE IF (os # NoStop /\ ts = NoStop) \/ (os = NoStop /\ ts # NoStop)
          THEN [stops |-> present(bs), conflicts |-> <<conflict("plan-stop-delete")>>]
     ELSE IF timeEq(os, ts)
          THEN LET merged == Spread(objOf(ts), objOf(os)) IN
               [stops |-> IF DOMAIN merged # {} THEN <<merged>> ELSE <<>>,
                conflicts |-> <<>>]
     ELSE [stops |-> present(bs), conflicts |-> <<conflict("plan-stop-time")>>]

RECURSIVE mergeStops(_, _, _, _, _)
mergeStops(dayId, sids, sb, so, st) ==
  IF sids = <<>> THEN [stops |-> <<>>, conflicts |-> <<>>]
  ELSE LET join(one, rest) == [stops |-> one.stops \o rest.stops,
                                conflicts |-> one.conflicts \o rest.conflicts]
       IN join(mergeStop(dayId, Head(sids), stopAt(sb, Head(sids)),
                         stopAt(so, Head(sids)), stopAt(st, Head(sids))),
               mergeStops(dayId, Tail(sids), sb, so, st))

\* days.find((d) => d.id === dayId) || fallback
findDay(days, dayId, fallback) ==
  IF \E i \in 1..Len(days) : Get(days[i], "id") = dayId
  THEN days[CHOOSE i \in 1..Len(days) :
              Get(days[i], "id") = dayId /\ \A j \in 1..(i - 1) : Get(days[j], "id") # dayId]
  ELSE fallback

\* the b, o and t of one iteration of the per-day loop
dayTriple(dayId, daysBase, daysOurs, daysTheirs) ==
  LET b == findDay(daysBase, dayId, With([date |-> "", stops |-> <<>>], "id", dayId))
  IN [b |-> b,
      o |-> findDay(daysOurs, dayId,
                    With(With([stops |-> <<>>], "date", Get(b, "date")), "id", dayId)),
      t |-> findDay(daysTheirs, dayId,
                    With(With([stops |-> <<>>], "date", Get(b, "date")), "id", dayId))]

\* dayId || b.date || o.date || t.date || ''
fallbackDayIdOf(dayId, d) ==
  Or(dayId, Or(Get(d.b, "date"), Or(Get(d.o, "date"), Or(Get(d.t, "date"), ""))))

\* one iteration of the per-day loop: the merged day and its conflicts
mergeDay(dayId, daysBase, daysOurs, daysTheirs) ==
  LET pushed(d, m) ==
        [day |-> With(With([stops |-> m.stops], "date",
                           Or(Get(d.o, "date"), Or(Get(d.t, "date"), Get(d.b, "date")))),
                      "id", dayId),
         conflicts |-> m.conflicts]
      stopLoop(d, sb, so, st) ==
        pushed(d, mergeStops(dayId,
                             Dedup(stopKeys(sb) \o stopKeys(so) \o stopKeys(st)),
                             sb, so, st))
      dayLoop(d, fallbackDayId) ==
        stopLoop(d, keyedStops(stopsOf(d.b), fallbackDayId),
                 keyedStops(stopsOf(d.o), fallbackDayId),
                 keyedStops(stopsOf(d.t), fallbackDayId))
      withDays(d) == dayLoop(d, fallbackDayIdOf(dayId, d))
  IN withDays(dayTriple(dayId, daysBase, daysOurs, daysTheirs))

RECURSIVE mergeDays(_, _, _, _)
mergeDays(dayIds, daysBase, daysOurs, daysTheirs) ==
  IF dayIds = <<>> THEN [days |-> <<>>, conflicts |-> <<>>]
  ELSE LET join(one, rest) == [days |-> <<one.day>> \o rest.days,
                                conflicts |-> one.conflicts \o rest.conflicts]
       IN join(mergeDay(Head(dayIds), daysBase, daysOurs, daysTheirs),
               mergeDays(Tail(dayIds), daysBase, daysOurs, daysTheirs))

dayIdsOf(days) == [i \in 1..Len(days) |-> Get(days[i], "id")]

\* an input plan after the structured merge: byKey has written the id it
\* assigned onto every stop of the days the loop looked up
planAfterByKey(plan, daysBase, daysOurs, daysTheirs) ==
  IF plan = NullPlan \/ "days" \notin DOMAIN plan THEN plan
  ELSE [plan EXCEPT !.days =
          [i \in 1..Len(@) |->
             LET dayId == Get(@[i], "id") IN
             IF "stops" \in DOMAIN @[i]
                /\ \A j \in 1..(i - 1) : Get(@[j], "id") # dayId
             THEN [@[i] EXCEPT !.stops =
                     keyedStops(@, fallbackDayIdOf(dayId,
                                  dayTriple(dayId, daysBase, daysOurs, daysTheirs)))]
             ELSE @[i]]]

\* the structured per-day / per-stop merge of three pairwise different plans
mergePlansStructured(bp, op, tp) ==
  LET daysBase == daysOf(bp)
      daysOurs == daysOf(op)
      daysTheirs == daysOf(tp)
      result(m) ==
        [plan |-> Spread(Spread(Spread(objOf(bp), objOf(op)), objOf(tp)),
                         [days |-> m.days]),
         conflicts |-> m.conflicts,
         base |-> planAfterByKey(bp, daysBase, daysOurs, daysTheirs),
         ours |-> planAfterByKey(op, daysBase, daysOurs, daysTheirs),
         theirs |-> planAfterByKey(tp, daysBase, daysOurs, daysTheirs)]
  IN result(mergeDays(Dedup(dayIdsOf(daysBase) \o dayIdsOf(daysOurs)
                              \o dayIdsOf(daysTheirs)),
                      daysBase, daysOurs, daysTheirs))

planOf(snap) == IF "plan" \in DOMAIN snap THEN snap.plan ELSE NullPlan

filesOf(snap) == IF "files" \in DOMAIN snap THEN snap.files ELSE EmptyObj

\* a plan tier without the cheap cases: every merge is reconciled per stop
mergePlansAlwaysStructured(bp, op, tp) == mergePlansStructured(bp, op, tp)

\* the plan tier: merged plan, plan conflicts, and the three plans after the call
mergePlans(bp, op, tp) ==
  LET early(plan, conflicts) ==
        [plan |-> plan, conflicts |-> conflicts, base |-> bp, ours |-> op,
         theirs |-> tp]
  IN IF bp = NullPlan /\ op = NullPlan /\ tp = NullPlan THEN early(NullPlan, <<>>)
     ELSE IF bp = op /\ bp # tp THEN early(tp, <<>>)
     ELSE IF bp = tp /\ bp # op THEN early(op, <<>>)
     ELSE IF op = tp THEN early(op, <<>>)
     ELSE LET diverged(baseKeys, ourKeys, theirKeys) ==
                IF /\ ~setsEqual(baseKeys, ourKeys)
                   /\ ~setsEqual(baseKeys, theirKeys)
                   /\ jaccardBelowThreshold(ourKeys, theirKeys)
                THEN early(bp, <<[type |-> "plan-whole", base |-> bp,
                                  ours |-> op, theirs |-> tp]>>)
                ELSE mergePlansStructured(bp, op, tp)
          IN diverged(planKeySet(bp), planKeySet(op), planKeySet(tp))

\* the loop over fileChanges: merged file map and file conflicts
RECURSIVE applyFileChanges(_, _, _)
applyFileChanges(mergedFiles, baseFiles, changes) ==
  IF changes = <<>> THEN [files |-> mergedFiles, conflicts |-> <<>>]
  ELSE LET ch == Head(changes) IN
       IF ch.side \in {"L", "R"}
       THEN applyFileChanges(
              IF ch.value \in {Undef, NullVal}
              THEN Without(mergedFiles, ch.key)
              ELSE With(mergedFiles, ch.key, ch.value),
              baseFiles, Tail(changes))
       ELSE LET rest == applyFileChanges(
                          With(mergedFiles, ch.key, Get(baseFiles, ch.key)),
                          baseFiles, Tail(changes))
            IN [files |-> rest.files,
                conflicts |-> <<[type |-> "file", path |-> ch.key,
                                 ours |-> ch.left, theirs |-> ch.right]>>
                              \o rest.conflicts]

\* an input snapshot after the call: its plan as byKey left it
snapAfter(snap, plan) == IF "plan" \in DOMAIN snap THEN [snap EXCEPT !.plan = plan] ELSE snap

\* a merge that returns ours' snapshot and never reports a conflict
mergeSnapshotsOursWins(base, ours, theirs) ==
  [snapshot |-> Spread(ours, [files |-> filesOf(ours), plan |-> planOf(ours)]),
   conflicts |-> <<>>, base |-> base, ours |-> ours, theirs |-> theirs]

\* mergeSnapshots(base, ours, theirs): the returned snapshot and conflicts,
\* and base, ours and theirs as they are after the call
mergeSnapshots(base, ours, theirs) ==
  LET result(f, p) ==
        [snapshot |-> Spread(Spread(Spread(base, ours), theirs),
                             [files |-> f.files, plan |-> p.plan]),
         conflicts |-> f.conflicts \o p.conflicts,
         base |-> snapAfter(base, p.base), ours |-> snapAfter(ours, p.ours),
         theirs |-> snapAfter(theirs, p.theirs)]
  IN result(applyFileChanges(filesOf(base), filesOf(base),
                             diffMaps(filesOf(base), filesOf(ours), filesOf(theirs))),
            mergePlans(planOf(base), planOf(ours), planOf(theirs)))

(* --------------------------- request inputs --------------------------- *)

StopLouvre ==
  [id |-> "s1", name |-> "Louvre", arrive |-> "10:00", depart |-> "11:00",
   stayMin |-> "60"]

StopEiffel ==
  [id |-> "s2", name |-> "Eiffel", arrive |-> "12:00", depart |-> "13:00",
   stayMin |-> "60"]

StopOrsay ==
  [id |-> "s3", name |-> "Orsay", arrive |-> "14:00", depart |-> "15:00",
   stayMin |-> "45"]

StopMarais ==
  [id |-> "s4", name |-> "Marais", arrive |-> "16:00", depart |-> "17:00",
   stayMin |-> "30"]

DayOne(stops) == [id |-> "d1", date |-> "2025-05-01", stops |-> stops]

\* a two-stop plan, as the quick-route start or a client would send it
PlanTwoStops == [days |-> <<DayOne(<<StopLouvre, StopEiffel>>)>>]

\* the same plan with the first stop moved to a later arrival
PlanLate ==
  [days |-> <<DayOne(<<[StopLouvre EXCEPT !.arrive = "10:30", !.stayMin = "30"],
                       StopEiffel>>)>>]

\* the same plan with the first stop's stay changed
PlanLongStay ==
  [days |-> <<DayOne(<<[StopLouvre EXCEPT !.stayMin = "90"], StopEiffel>>)>>]

\* createInitialCommit's snapshot
EmptySnapshot == [files |-> EmptyObj, plan |-> [days |-> <<>>]]

SnapOf(plan) == [files |-> EmptyObj, plan |-> plan]

\* the plan with stop (dayIdx, stopIdx)'s stayMin set to v
EditStay(plan, dayIdx, stopIdx, v) ==
  [plan EXCEPT !.days[dayIdx].stops[stopIdx].stayMin = v]

\* the plan with stop st appended to day dayIdx
AddStop(plan, dayIdx, st) ==
  [plan EXCEPT !.days[dayIdx].stops = Append(@, st)]

BranchNames == {"main", "alt"}

\* snapshots a client sends with commit and push
ClientSnapshots == {SnapOf(PlanLate), SnapOf(PlanLongStay)}

\* plans a client sends with easy-save
ClientPlans == {PlanLongStay}

\* plans autoPlan returns
PlannerPlans == {PlanTwoStops}

\* snapshots a repo is started with (init, quick-route start, fork)
InitialSnapshots == {SnapOf(PlanTwoStops)}

Ids == 1..Len(commits)

(* ----------------------------- key change ----------------------------- *)

Abs(n) == IF n < 0 THEN -n ELSE n

\* stop?.id || stop?.fullName || stop?.name || `stop-${idx}`
stopCountKey(stop, idx) ==
  Or(Get(stop, "id"),
     Or(Get(stop, "fullName"), Or(Get(stop, "name"), "stop-" \o ToString(idx))))

\* the keys collectStopCounts counts, day after day in visiting order
RECURSIVE countedKeys(_)
countedKeys(days) ==
  IF days = <<>> THEN <<>>
  ELSE [i \in 1..Len(stopsOf(Head(days))) |->
          stopCountKey(stopsOf(Head(days))[i], i - 1)]
       \o countedKeys(Tail(days))

\* counts.get(key) || 0
countOf(keys, key) == Cardinality({i \in 1..Len(keys) : keys[i] = key})

\* collectStopCounts(plan): counts is kept as the keys counted
collectStopCounts(plan) ==
  [counts |-> countedKeys(daysOf(plan)),
   total |-> Len(countedKeys(daysOf(plan))),
   dayCount |-> Len(daysOf(plan))]

\* the allKeys.forEach of diffStopCounts over keys ks
RECURSIVE diffLoop(_, _, _)
diffLoop(baseKeys, nextKeys, ks) ==
  IF ks = <<>> THEN [added |-> 0, removed |-> 0]
  ELSE LET a == countOf(baseKeys, Head(ks))
           b == countOf(nextKeys, Head(ks))
           rest == diffLoop(baseKeys, nextKeys, Tail(ks))
       IN [added |-> rest.added + (IF b > a THEN b - a ELSE 0),
           removed |-> rest.removed + (IF a > b THEN a - b ELSE 0)]

diffStopCounts(base, next) ==
  diffLoop(base.counts, next.counts, Dedup(base.counts \o next.counts))

\* a test that takes an unchanged empty plan for a 30% change
pctAtLeast30OrEmpty(baseTotal, nextTotal) ==
  10 * Abs(nextTotal - baseTotal) >= 3 * baseTotal

\* pctChange >= 0.3 in whole numbers; the quotient of the code is a double,
\* which orders against 0.3 as the fraction does for the totals of a plan
pctAtLeast30(baseTotal, nextTotal) ==
  IF baseTotal > 0 THEN 10 * Abs(nextTotal - baseTotal) >= 3 * baseTotal
  ELSE nextTotal > 0

\* Math.round(pctChange * 100)
pctRounded(baseTotal, nextTotal) ==
  IF baseTotal > 0
  THEN (200 * Abs(nextTotal - baseTotal) + baseTotal) \div (2 * baseTotal)
  ELSE IF nextTotal > 0 THEN 100 ELSE 0

\* reasons.join(' \u2022 '), the bullet written as |
RECURSIVE joinReasons(_)
joinReasons(reasons) ==
  IF Len(reasons) = 1 THEN reasons[1]
  ELSE reasons[1] \o " | " \o joinReasons(Tail(reasons))

\* the snapshot null: computeKeyChange is given no snapshot
NullSnap == [null |-> TRUE]

\* computeKeyChange(baseSnap, nextSnap)
computeKeyChange(baseSnap, nextSnap) ==
  IF baseSnap = NullSnap \/ nextSnap = NullSnap
  THEN [score |-> 0, auto |-> 0, reason |-> NullVal]
  ELSE LET baseStats == collectStopCounts(planOf(baseSnap))
           nextStats == collectStopCounts(planOf(nextSnap))
           scored(d, dayDelta, baseTotal, nextTotal) ==
             LET reasons ==
                   (IF d.added # 0 \/ d.removed # 0
                    THEN <<"Stops changed: +" \o ToString(d.added) \o " / -"
                             \o ToString(d.removed)>>
                    ELSE <<>>)
                   \o (IF dayDelta # 0
                       THEN <<"Days changed: " \o (IF dayDelta > 0 THEN "+" ELSE "")
                                \o ToString(dayDelta)>>
                       ELSE <<>>)
                   \o (IF pctAtLeast30(baseTotal, nextTotal)
                       THEN <<"Total stops change: "
                                \o ToString(pctRounded(baseTotal, nextTotal)) \o "%">>
                       ELSE <<>>)
             IN [score |-> d.added + d.removed + Abs(dayDelta) * 2
                           + (IF pctAtLeast30(baseTotal, nextTotal) THEN 2 ELSE 0),
                 auto |-> IF \/ d.added + d.removed >= 3
                             \/ Abs(dayDelta) >= 1
                             \/ pctAtLeast30(baseTotal, nextTotal)
                          THEN 1 ELSE 0,
                 reason |-> IF reasons # <<>> THEN joinReasons(reasons) ELSE NullVal]
       IN scored(diffStopCounts(baseStats, nextStats),
                 nextStats.dayCount - baseStats.dayCount,
                 baseStats.total, nextStats.total)

(* ------------------------ store and registry -------------------------- *)

\* [x].filter(Boolean)
FilterBoolean(ids) == SelectSeq(ids, LAMBDA x : x # NULL)

\* nowISO() when the store holds these commits: the clock is read as the
\* number of the commit in creation order
nowISO(store) == Len(store) + 1

\* an insert whose id is its first parent's when that parent is stored (the row
\* replaces the parent's)
insertCommitReusingId(store, author, message, parents, snapshot, createdAt, diff, manualKey) ==
  LET row == [author |-> author, message |-> message, parents |-> parents,
              snapshot |-> snapshot, createdAt |-> createdAt,
              keyChangeScore |-> diff.score, keyChangeAuto |-> diff.auto,
              keyChangeManual |-> manualKey, keyChangeReason |-> diff.reason]
  IN IF parents # <<>> /\ parents[1] \in 1..Len(store)
     THEN [store EXCEPT ![parents[1]] = row]
     ELSE Append(store, row)

\* insertCommit.run(id, repoId, author, message, parents, snapshot, createdAt,
\* score, auto, manualKey, reason); the new commit's id is the next uuid
insertCommit(store, author, message, parents, snapshot, createdAt, diff, manualKey) ==
  Append(store, [author |-> author, message |-> message, parents |-> parents,
                 snapshot |-> snapshot, createdAt |-> createdAt,
                 keyChangeScore |-> diff.score, keyChangeAuto |-> diff.auto,
                 keyChangeManual |-> manualKey, keyChangeReason |-> diff.reason])

\* insertCommitWithKeyChange({author, message, parents, snapshot, createdAt}):
\* the key change is computed against the first parent, when it is stored
insertCommitWithKeyChange(store, author, message, parents, snapshot) ==
  insertCommit(store, author, message, parents, snapshot, nowISO(store),
               IF parents # <<>> /\ parents[1] # NULL
                  /\ getCommitRowIn(store, parents[1]) # NoRow
               THEN computeKeyChange(getCommitRowIn(store, parents[1]).snapshot,
                                     snapshot)
               ELSE [score |-> 0, auto |-> 0, reason |-> NullVal],
               0)

\* an update that writes the automatic flag along with the manual one
updateCommitKeyFlags(store, manual, commitId) ==
  [store EXCEPT ![commitId].keyChangeManual = manual,
                ![commitId].keyChangeAuto = manual]

\* updateCommitKeyManual.run(manual, commitId)
updateCommitKeyManual(store, manual, commitId) ==
  [store EXCEPT ![commitId].keyChangeManual = manual]

\* updateBranchHead that leaves the head where it is
updateBranchHeadNoop(reg, name, id) == reg

\* updateBranchHead.run(id, br.id)
updateBranchHead(reg, name, id) == [reg EXCEPT ![name] = id]

\* insertBranch.run(uuid(), repoId, name, head, now), as getBranch.get sees
\* it: the table has no unique key on (repo_id, name), and of two rows with
\* one name getBranch.get returns the one inserted first, so a row inserted
\* under a name that is taken is never read
insertBranch(reg, name, head) ==
  IF name \in DOMAIN reg THEN reg
  ELSE [b \in DOMAIN reg \cup {name} |-> IF b = name THEN head ELSE reg[b]]

newId == Len(commits) + 1

\* a stale check that lets any base through when the branch has no head
staleUnlessEmpty(head, baseCommitId) == head # NULL /\ head # baseCommitId

\* commit, push: br.head_commit_id !== baseCommitId
staleStrict(head, baseCommitId) == head # baseCommitId

\* a stale check that never fires
staleNever(head, expected) == FALSE

\* easy-save, merge, merge-resolve: head && expected && head !== expected
\* (merge and merge-resolve pass a non-empty theirs id)
staleIfBoth(head, expected) == head # NULL /\ expected # NULL /\ head # expected


(* ------------------------------ responses ----------------------------- *)

\* the answer to the last handled request: the handler, its status, the id of
\* the commit it created (NULL when none) and the head id an error reports
Resp(op, status, commitId, reported) ==
  [op |-> op, status |-> status, commitId |-> commitId, reported |-> reported]

\* a handler's result when it refuses: an error status and the head it reports
Refused(status, reported) ==
  [status |-> status, reported |-> reported, commits |-> commits,
   branches |-> branches]

\* a handler's result when it writes: the store and the heads it leaves
Stored(store, reg) ==
  [status |-> "ok", reported |-> NULL, commits |-> store, branches |-> reg]

\* the handler writes its result and answers
Answer(op, result) ==
  /\ commits' = result.commits
  /\ branches' = result.branches
  /\ last' = Resp(op, result.status,
                  IF result.status = "ok" THEN Len(result.commits) ELSE NULL,
                  result.reported)

Idle == [op |-> "idle"]

Slots == 1..MaxInflight

\* a request in flight takes the first free slot
FreeSlot(slot) ==
  /\ inflight[slot] = Idle
  /\ \A other \in Slots : other < slot => inflight[other] # Idle

headOf(name) == IF name \in DOMAIN branches THEN branches[name] ELSE NULL

\* the id of the head commit's row, or null when the branch has no stored head
currentHeadId(name) ==
  IF getCommitRow(headOf(name)) = NoRow THEN NULL ELSE headOf(name)

\* the head commit's snapshot, or the empty default
headSnapshot(id) ==
  IF getCommitRow(id) = NoRow THEN EmptySnapshot ELSE getCommitRow(id).snapshot

(* ------------------------- POST .../branches -------------------------- *)

CreateBranch(name, fromCommitId) ==
  /\ branches' = insertBranch(branches, name, fromCommitId)
  /\ last' = Resp("branch", "ok", NULL, NULL)
  /\ UNCHANGED <<commits, inflight>>

(* ----------------------- POST .../commits, push ----------------------- *)

\* what the handler answers and what it leaves in the store
commitOrPushResult(branch, baseCommitId, snapshot) ==
  IF branch \notin DOMAIN branches
  THEN Refused("branch_not_found", NULL)
  ELSE IF staleStrict(branches[branch], baseCommitId)
  THEN Refused("non_fast_forward", branches[branch])
  ELSE Stored(insertCommitWithKeyChange(
                commits, "cli", "update", FilterBoolean(<<baseCommitId>>),
                snapshot),
              updateBranchHead(branches, branch, newId))

commitOrPush(op, branch, baseCommitId, snapshot) ==
  /\ Answer(op, commitOrPushResult(branch, baseCommitId, snapshot))
  /\ UNCHANGED inflight

Commit(branch, baseCommitId, snapshot) ==
  commitOrPush("commit", branch, baseCommitId, snapshot)

Push(branch, baseCommitId, snapshot) ==
  commitOrPush("push", branch, baseCommitId, snapshot)

(* ------------------------- POST .../easy-save ------------------------- *)

\* every stop without an id gets a fresh uuid
assignStopIds(days, seed) ==
  [i \in 1..Len(days) |->
     IF "stops" \notin DOMAIN days[i] THEN days[i]
     ELSE [days[i] EXCEPT !.stops =
             [j \in 1..Len(@) |->
                IF Get(@[j], "id") \in {Undef, NullVal, ""}
                THEN With(@[j], "id",
                          "uuid-" \o ToString(seed) \o "-" \o ToString(i)
                                  \o "-" \o ToString(j))
                ELSE @[j]]]]

EasySave(branch, parentId, clientPlan) ==
  IF branch \notin DOMAIN branches
  THEN /\ last' = Resp("easy-save", "branch_not_found", NULL, NULL)
       /\ UNCHANGED <<commits, branches, inflight>>
  ELSE LET cur == currentHeadId(branch) IN
       IF staleIfBoth(cur, parentId)
       THEN /\ last' = Resp("easy-save", "non_fast_forward", NULL, cur)
            /\ UNCHANGED <<commits, branches, inflight>>
       ELSE LET baseSnap == headSnapshot(cur)
                basePlan == IF planOf(baseSnap) = NullPlan THEN [days |-> <<>>]
                            ELSE planOf(baseSnap)
                clientDays == IF clientPlan # NullPlan /\ "days" \in DOMAIN clientPlan
                              THEN clientPlan.days ELSE daysOf(basePlan)
                newPlan == Spread(Spread(basePlan, objOf(clientPlan)),
                                  [days |-> assignStopIds(clientDays, newId)])
                newSnap == Spread(baseSnap, [plan |-> newPlan])
            IN /\ commits' = insertCommitWithKeyChange(
                               commits, "web", "Update trip (easy save)",
                               FilterBoolean(<<cur>>), newSnap)
               /\ branches' = updateBranchHead(branches, branch, newId)
               /\ last' = Resp("easy-save", "ok", newId, NULL)
               /\ UNCHANGED inflight

(* --------------------------- POST .../restore ------------------------- *)

Restore(targetBranch, commitId) ==
  IF commitId = NULL
  THEN /\ last' = Resp("restore", "missing_commit_id", NULL, NULL)
       /\ UNCHANGED <<commits, branches, inflight>>
  ELSE IF targetBranch \notin DOMAIN branches
  THEN /\ last' = Resp("restore", "branch_not_found", NULL, NULL)
       /\ UNCHANGED <<commits, branches, inflight>>
  ELSE IF getCommitRow(commitId) = NoRow
  THEN /\ last' = Resp("restore", "commit_not_found", NULL, NULL)
       /\ UNCHANGED <<commits, branches, inflight>>
  ELSE /\ commits' = insertCommitWithKeyChange(
                       commits, "web", "Restore " \o targetBranch,
                       FilterBoolean(<<branches[targetBranch]>>),
                       getCommitRow(commitId).snapshot)
       /\ branches' = updateBranchHead(branches, targetBranch, newId)
       /\ last' = Resp("restore", "ok", newId, NULL)
       /\ UNCHANGED inflight


(* ------------------------ POST .../planner/run ------------------------ *)

\* up to `await autoPlan(payload)`: nothing of the store is read yet
PlannerRunStart(slot, branchName) ==
  /\ FreeSlot(slot)
  /\ inflight' = [inflight EXCEPT ![slot] =
                    [op |-> "planner", branch |-> branchName]]
  /\ UNCHANGED <<commits, branches, last>>

\* after the await: read main and the planner branch, commit, move the head
PlannerRunFinish(slot, plan) ==
  /\ inflight[slot] # Idle
  /\ inflight[slot].op = "planner"
  /\ LET name == inflight[slot].branch
         mainHeadId == currentHeadId("main")
         reg == IF name \in DOMAIN branches THEN branches
                ELSE insertBranch(branches, name, mainHeadId)
         baseId == IF getCommitRow(reg[name]) # NoRow THEN reg[name] ELSE mainHeadId
         baseSnap == headSnapshot(baseId)
         newSnap == Spread(baseSnap,
                           [plan |-> plan, planInput |-> [branchName |-> name]])
     IN /\ commits' = insertCommitWithKeyChange(
                        commits, "web", "Auto plan -> " \o name,
                        FilterBoolean(<<baseId>>), newSnap)
        /\ branches' = updateBranchHead(reg, name, newId)
        /\ last' = Resp("planner", "ok", newId, NULL)
  /\ inflight' = [inflight EXCEPT ![slot] = Idle]

(* -------------------------- POST .../easy-add ------------------------- *)

\* up to the first `await fuzzySearchPlaces(...)`: the branch and its head are read
EasyAddStart(slot, branch) ==
  /\ FreeSlot(slot)
  /\ IF branch \notin DOMAIN branches
     THEN /\ last' = Resp("easy-add", "branch_not_found", NULL, NULL)
          /\ UNCHANGED <<commits, branches, inflight>>
     ELSE /\ inflight' = [inflight EXCEPT ![slot] =
                            [op |-> "easy-add", branch |-> branch,
                             headId |-> currentHeadId(branch),
                             baseSnap |-> headSnapshot(currentHeadId(branch))]]
          /\ UNCHANGED <<commits, branches, last>>

\* after `await autoPlan(payload)`: commit on the head read before the awaits
EasyAddFinish(slot, plan) ==
  /\ inflight[slot] # Idle
  /\ inflight[slot].op = "easy-add"
  /\ LET r == inflight[slot]
         newSnap == Spread(r.baseSnap,
                           [plan |-> plan, planInput |-> [branchName |-> r.branch]])
     IN /\ commits' = insertCommitWithKeyChange(
                        commits, "web", "Easy add",
                        FilterBoolean(<<r.headId>>), newSnap)
        /\ branches' = updateBranchHead(branches, r.branch, newId)
        /\ last' = Resp("easy-add", "ok", newId, NULL)
  /\ inflight' = [inflight EXCEPT ![slot] = Idle]

(* ---------------------------- POST .../merge -------------------------- *)

\* a test that lets a single conflict pass
conflictsFoundOverOne(conflicts) == Len(conflicts) > 1

\* if (conflicts.length)
conflictsFound(conflicts) == Len(conflicts) > 0

\* what the handler answers and what it leaves in the store
mergeResult(oursId, theirsId, target) ==
  IF oursId = NULL \/ theirsId = NULL THEN Refused("missing_commits", NULL)
  ELSE IF target \notin DOMAIN branches THEN Refused("branch_not_found", NULL)
  ELSE IF staleIfBoth(branches[target], theirsId)
  THEN Refused("non_fast_forward", branches[target])
  ELSE LET merged(m) ==
             IF conflictsFound(m.conflicts) THEN Refused("conflicts", NULL)
             ELSE Stored(insertCommitWithKeyChange(
                           commits, "cli",
                           "Merge " \o ToString(oursId) \o " into " \o target,
                           <<oursId, theirsId>>, m.snapshot),
                         updateBranchHead(branches, target, newId))
           based(baseId) ==
             IF baseId = NULL THEN Refused("no_common_base", NULL)
             ELSE IF \/ getCommitRow(baseId) = NoRow
                     \/ getCommitRow(oursId) = NoRow
                     \/ getCommitRow(theirsId) = NoRow
             THEN Refused("bad_commits", NULL)
             ELSE merged(mergeSnapshots(getCommitRow(baseId).snapshot,
                                        getCommitRow(oursId).snapshot,
                                        getCommitRow(theirsId).snapshot))
       IN based(findLCA(oursId, theirsId))

Merge(oursId, theirsId, target) ==
  /\ Answer("merge", mergeResult(oursId, theirsId, target))
  /\ UNCHANGED inflight


(* ------------------------ POST .../merge-resolve ---------------------- *)

\* index of the first element of seq satisfying Test, or 0
FirstIndex(seq, Test(_)) ==
  IF \E i \in 1..Len(seq) : Test(seq[i])
  THEN CHOOSE i \in 1..Len(seq) : Test(seq[i]) /\ \A j \in 1..(i - 1) : ~Test(seq[j])
  ELSE 0

\* pick.snapshot.plan?.days?.find(dayId) ... stops.find(stopId), or nothing
findStop(snap, dayId, stopId) ==
  LET days == daysOf(planOf(snap))
      di == FirstIndex(days, LAMBDA d : Get(d, "id") = dayId)
  IN IF di = 0 THEN NoStop
     ELSE LET stops == stopsOf(days[di])
              si == FirstIndex(stops, LAMBDA x : Get(x, "id") = stopId)
          IN IF si = 0 THEN NoStop ELSE stops[si]

\* a pick that answers ours' commit whatever the choice
pickSideOurs(choice, baseSnap, ourSnap, theirSnap) == ourSnap

\* choice === 'ours' ? ourC : choice === 'theirs' ? theirC : baseC
pickSide(choice, baseSnap, ourSnap, theirSnap) ==
  IF choice = "ours" THEN ourSnap
  ELSE IF choice = "theirs" THEN theirSnap
  ELSE baseSnap

\* a loop that takes every decision that is not for a file as one for the
\* whole plan
applyDecisionElseWhole(merged, d, baseSnap, ourSnap, theirSnap) ==
  LET pick == pickSide(Get(d, "choice"), baseSnap, ourSnap, theirSnap)
  IN IF d.type = "file"
     THEN [merged EXCEPT !.files = With(@, d.path, Get(filesOf(pick), d.path))]
     ELSE [merged EXCEPT !.plan = planOf(pick)]

\* one decision applied to the merged snapshot
applyDecision(merged, d, baseSnap, ourSnap, theirSnap) ==
  LET pick == pickSide(Get(d, "choice"), baseSnap, ourSnap, theirSnap)
      days == daysOf(planOf(merged))
      di == FirstIndex(days, LAMBDA x : Get(x, "id") = Get(d, "dayId"))
      stops == IF di = 0 THEN <<>> ELSE stopsOf(days[di])
      si == FirstIndex(stops, LAMBDA x : Get(x, "id") = Get(d, "stopId"))
      ps == findStop(pick, Get(d, "dayId"), Get(d, "stopId"))
      withStops(newStops) ==
        [merged EXCEPT !.plan.days[di].stops = newStops]
  IN IF d.type = "file"
     THEN [merged EXCEPT !.files = With(@, d.path, Get(filesOf(pick), d.path))]
     ELSE IF d.type = "plan-stop-time"
     THEN IF di = 0 \/ si = 0 \/ ps = NoStop THEN merged
          ELSE withStops([stops EXCEPT ![si] =
                 With(With(@, "arrive", Get(ps, "arrive")),
                      "depart", Get(ps, "depart"))])
     ELSE IF d.type = "plan-whole"
     THEN [merged EXCEPT !.plan = planOf(pick)]
     ELSE IF d.type = "plan-stop-delete"
     THEN IF di = 0 \/ si = 0 THEN merged
          ELSE IF ps # NoStop THEN withStops([stops EXCEPT ![si] = ps])
          ELSE withStops(SubSeq(stops, 1, si - 1) \o SubSeq(stops, si + 1, Len(stops)))
     ELSE merged

RECURSIVE applyDecisions(_, _, _, _, _)
applyDecisions(merged, decisions, baseSnap, ourSnap, theirSnap) ==
  IF decisions = <<>> THEN merged
  ELSE applyDecisions(
         applyDecision(merged, Head(decisions), baseSnap, ourSnap, theirSnap),
         Tail(decisions), baseSnap, ourSnap, theirSnap)

\* the decisions the merge page posts: one per conflict, all with one choice
decisionsFor(conflicts, choice) ==
  [i \in 1..Len(conflicts) |->
     LET c == conflicts[i] IN
     IF c.type = "file" THEN [type |-> c.type, path |-> c.path, choice |-> choice]
     ELSE IF c.type = "plan-whole" THEN [type |-> c.type, choice |-> choice]
     ELSE [type |-> c.type, dayId |-> c.dayId, stopId |-> c.stopId,
           choice |-> choice]]

Choices == {"ours", "theirs", "base"}

\* the merge of the stored snapshots of these ids
mergeOfRows(baseId, oursId, theirsId) ==
  mergeSnapshots(getCommitRow(baseId).snapshot, getCommitRow(oursId).snapshot,
                 getCommitRow(theirsId).snapshot)

\* the snapshot merge-resolve commits for these ids and these decisions
resolvedWith(baseId, oursId, theirsId, decisions) ==
  LET decided(m) ==
        applyDecisions(m.snapshot, decisions, m.base, m.ours, m.theirs)
  IN decided(mergeOfRows(baseId, oursId, theirsId))

\* the resolutions the merge page posts for this choice ("none": no decisions)
pageDecisions(baseId, oursId, theirsId, choice) ==
  IF choice = "none" THEN <<>>
  ELSE decisionsFor(mergeOfRows(baseId, oursId, theirsId).conflicts, choice)

\* the snapshot merge-resolve commits for these ids and this choice
resolvedSnapshot(baseId, oursId, theirsId, choice) ==
  resolvedWith(baseId, oursId, theirsId,
               pageDecisions(baseId, oursId, theirsId, choice))

\* what the handler answers to these resolutions and what it leaves in the store
mergeResolveWith(baseId, oursId, theirsId, targetBranch, decisions) ==
  IF \/ getCommitRow(baseId) = NoRow
     \/ getCommitRow(oursId) = NoRow
     \/ getCommitRow(theirsId) = NoRow
  THEN Refused("bad_commits", NULL)
  ELSE IF targetBranch \notin DOMAIN branches THEN Refused("branch_not_found", NULL)
  ELSE IF staleIfBoth(branches[targetBranch], theirsId)
  THEN Refused("non_fast_forward", NULL)
  ELSE Stored(insertCommitWithKeyChange(
                commits, "web",
                "Merge " \o ToString(oursId) \o " into " \o targetBranch
                  \o " (resolved)",
                <<oursId, theirsId>>,
                resolvedWith(baseId, oursId, theirsId, decisions)),
              updateBranchHead(branches, targetBranch, newId))

\* what the handler answers to the page's resolutions for this choice
mergeResolveResult(baseId, oursId, theirsId, targetBranch, choice) ==
  mergeResolveWith(baseId, oursId, theirsId, targetBranch,
                   IF \/ getCommitRow(baseId) = NoRow
                      \/ getCommitRow(oursId) = NoRow
                      \/ getCommitRow(theirsId) = NoRow
                   THEN <<>>
                   ELSE pageDecisions(baseId, oursId, theirsId, choice))

\* a merge-resolve request with any ids
MergeResolve(baseId, oursId, theirsId, targetBranch, choice) ==
  /\ Answer("merge-resolve",
            mergeResolveResult(baseId, oursId, theirsId, targetBranch, choice))
  /\ UNCHANGED inflight

(* ------------------------- GET .../merge (page) ----------------------- *)

\* the merge page is rendered: the heads of source and target and their base
MergePage(slot, source, target) ==
  /\ FreeSlot(slot)
  /\ inflight' = [inflight EXCEPT ![slot] =
                    [op |-> "merge-page", targetBranch |-> target,
                     oursId |-> headOf(source), theirsId |-> headOf(target),
                     baseId |-> findLCA(headOf(source), headOf(target))]]
  /\ UNCHANGED <<commits, branches, last>>

\* the page's form is submitted with the ids the page was rendered with
MergePageSubmit(slot, choice) ==
  /\ inflight[slot] # Idle
  /\ inflight[slot].op = "merge-page"
  /\ Answer("merge-resolve",
            mergeResolveResult(inflight[slot].baseId, inflight[slot].oursId,
                               inflight[slot].theirsId,
                               inflight[slot].targetBranch, choice))
  /\ inflight' = [inflight EXCEPT ![slot] = Idle]


(* -------------------- POST /api/commits/:id/key-change ---------------- *)

\* a logged-in user with access to the repo sets or clears the manual flag:
\* manual = req.body && req.body.manual ? 1 : 0
KeyChange(commitId, body) ==
  /\ IF getCommitRow(commitId) = NoRow
     THEN /\ last' = Resp("key-change", "commit_not_found", NULL, NULL)
          /\ UNCHANGED commits
     ELSE /\ commits' = updateCommitKeyManual(
                         commits, IF Truthy(Get(body, "manual")) THEN 1 ELSE 0,
                         commitId)
          /\ last' = Resp("key-change", "ok", commitId, NULL)
  /\ UNCHANGED <<branches, inflight>>

(* --------------------------- the request model ------------------------ *)

\* a repo right after it is created: one root commit, main on it
Init ==
  /\ \E snap \in InitialSnapshots :
       commits = insertCommitWithKeyChange(<<>>, "system", "Initial commit",
                                           <<>>, snap)
  /\ branches = [b \in {"main"} |-> 1]
  /\ inflight = [slot \in Slots |-> Idle]
  /\ last = Resp("init", "ok", 1, NULL)

\* ids a request may carry: none, any stored commit's, or one no commit has
RequestIds == {NULL, Unknown} \cup Ids

\* the baseCommitId of commit and push, which the body may also leave out
BaseIds == RequestIds \cup {Absent}

\* ids a merge request may carry
MergeIds == {NULL} \cup Ids

\* the choice the merge page posts for every conflict
ResolveChoices == {"ours"}

\* uuid() hands out at most max commit ids
Capped(max) == Len(commits') <= max

DoCreateBranch ==
  \E name \in BranchNames, from \in RequestIds : CreateBranch(name, from)

DoCommit(max, snapshots) ==
  \E b \in BranchNames, base \in BaseIds, snap \in snapshots :
    Commit(b, base, snap) /\ Capped(max)

DoPush(max, snapshots) ==
  \E b \in BranchNames, base \in BaseIds, snap \in snapshots :
    Push(b, base, snap) /\ Capped(max)

DoEasySave(max) ==
  \E b \in BranchNames, parent \in MergeIds, plan \in ClientPlans :
    EasySave(b, parent, plan) /\ Capped(max)

DoRestore(max) ==
  \E b \in BranchNames, c \in RequestIds : Restore(b, c) /\ Capped(max)

DoPlannerRunStart == \E slot \in Slots, b \in BranchNames : PlannerRunStart(slot, b)

DoPlannerRunFinish(max) ==
  \E slot \in Slots, plan \in PlannerPlans : PlannerRunFinish(slot, plan) /\ Capped(max)

DoEasyAddStart == \E slot \in Slots, b \in BranchNames : EasyAddStart(slot, b)

DoEasyAddFinish(max) ==
  \E slot \in Slots, plan \in PlannerPlans : EasyAddFinish(slot, plan) /\ Capped(max)

DoMerge(max) ==
  \E o \in Ids, t \in MergeIds, b \in BranchNames : Merge(o, t, b) /\ Capped(max)

DoMergeResolve(max) ==
  \E base \in Ids, o \in Ids, t \in MergeIds, b \in BranchNames,
     choice \in ResolveChoices : MergeResolve(base, o, t, b, choice) /\ Capped(max)

DoMergePage ==
  \E slot \in Slots, source \in BranchNames, target \in BranchNames :
    MergePage(slot, source, target)

DoMergePageSubmit(max) ==
  \E slot \in Slots, choice \in ResolveChoices :
    MergePageSubmit(slot, choice) /\ Capped(max)

\* every write request, in any order; merges go into main with the head the
\* client read as theirs, and a resolution is posted against the root commit
Next ==
  \/ DoCreateBranch
  \/ DoCommit(MaxCommits, {SnapOf(PlanLate)})
  \/ DoPush(MaxCommits, {SnapOf(PlanLongStay)})
  \/ DoEasySave(MaxCommits)
  \/ DoRestore(MaxCommits)
  \/ DoPlannerRunStart
  \/ DoPlannerRunFinish(MaxCommits)
  \/ DoEasyAddStart
  \/ DoEasyAddFinish(MaxCommits)
  \/ (\E o \in Ids : Merge(o, headOf("main"), "main") /\ Capped(MaxCommits))
  \/ (\E o \in Ids, choice \in ResolveChoices :
        MergeResolve(1, o, headOf("main"), "main", choice) /\ Capped(MaxCommits))

Spec == Init /\ [][Next]_vars

\* the writers that answer without awaiting and give their commit one parent
NextCas ==
  \/ DoCreateBranch
  \/ DoCommit(MaxCasCommits, ClientSnapshots)
  \/ DoPush(MaxCasCommits, ClientSnapshots)
  \/ DoEasySave(MaxCasCommits)
  \/ DoRestore(MaxCasCommits)

SpecCas == Init /\ [][NextCas]_vars

\* branches, commits and merge requests
NextMerge ==
  \/ DoCreateBranch
  \/ DoCommit(MaxMergeCommits, ClientSnapshots)
  \/ DoMerge(MaxMergeCommits)
  \/ DoMergeResolve(MaxMergeCommits)

SpecMerge == Init /\ [][NextMerge]_vars

\* branches, commits and merges resolved through the merge page
NextPage ==
  \/ DoCreateBranch
  \/ DoCommit(MaxPageCommits, {SnapOf(PlanLate)})
  \/ DoMergePage
  \/ DoMergePageSubmit(MaxPageCommits)

SpecPage == Init /\ [][NextPage]_vars

\* every request that writes the commits table, with at most one handler
\* suspended and the flag set, cleared or left out of the body for the root
\* commit or a commit that is not stored
NextKey ==
  \/ DoCommit(MaxKeyCommits, {SnapOf(PlanLate)})
  \/ DoPush(MaxKeyCommits, {SnapOf(PlanLongStay)})
  \/ DoEasySave(MaxKeyCommits)
  \/ DoRestore(MaxKeyCommits)
  \/ (\E b \in BranchNames : PlannerRunStart(1, b))
  \/ (\E plan \in PlannerPlans :
        PlannerRunFinish(1, plan) /\ Capped(MaxKeyCommits))
  \/ (\E b \in BranchNames : EasyAddStart(1, b))
  \/ (\E plan \in PlannerPlans :
        EasyAddFinish(1, plan) /\ Capped(MaxKeyCommits))
  \/ DoMerge(MaxKeyCommits)
  \/ (\E o \in Ids, t \in MergeIds, choice \in ResolveChoices :
        MergeResolve(1, o, t, "main", choice) /\ Capped(MaxKeyCommits))
  \/ (\E c \in {1, Unknown},
          body \in {[manual |-> "true"], [manual |-> ""], EmptyObj} :
        KeyChange(c, body))

SpecKey == Init /\ [][NextKey]_vars

(* ---------------------- merge-base queries on graphs ------------------ *)

\* the parent lists commit i can have been stored with: none (a root), the one
\* head it was committed on (a stored commit or an id no commit has), or the
\* two stored commits of a merge
ParentLists(i) ==
  {<<>>} \cup {<<p>> : p \in (1..(i - 1)) \cup {Unknown}}
         \cup {<<p, q>> : p \in 1..(i - 1), q \in 1..(i - 1)}

\* the stores of n commits
Stores(n) ==
  {[i \in 1..n |-> [parents |-> f[i], snapshot |-> EmptySnapshot]] :
     f \in {g \in [1..n -> UNION {ParentLists(i) : i \in 1..n}] :
              \A i \in 1..n : g[i] \in ParentLists(i)}}

InitGraph ==
  /\ \E n \in 1..MaxGraph : commits \in Stores(n)
  /\ branches = [b \in {"main"} |-> Len(commits)]
  /\ inflight = [slot \in Slots |-> Idle]
  /\ last = Resp("init", "ok", NULL, NULL)

\* findLCA(aId, bId) is asked for; the answer is recorded with the question
FindLCA(aId, bId) ==
  /\ last' = [op |-> "findLCA", aId |-> aId, bId |-> bId,
              base |-> findLCA(aId, bId)]
  /\ UNCHANGED <<commits, branches, inflight>>

\* ancestorsSet(startId) is asked for
AncestorsSet(startId) ==
  /\ last' = [op |-> "ancestorsSet", startId |-> startId,
              seen |-> ancestorsSet(startId)]
  /\ UNCHANGED <<commits, branches, inflight>>

NextGraph ==
  \/ \E aId \in RequestIds, bId \in RequestIds : FindLCA(aId, bId)
  \/ \E startId \in RequestIds : AncestorsSet(startId)

SpecGraph == InitGraph /\ [][NextGraph]_vars

(* ------------------ the traversal loops, pass by pass ----------------- *)

\* the parent lists a row of any finite store can hold: none, one id (stored
\* or not, its own included), or two stored ids
AnyParentLists(n) ==
  {<<>>} \cup {<<p>> : p \in (1..n) \cup {Unknown}}
         \cup {<<p, q>> : p \in 1..n, q \in 1..n}

\* the stores of n commits, parent edges in any direction
AnyStores(n) ==
  {[i \in 1..n |-> [parents |-> f[i], snapshot |-> EmptySnapshot]] :
     f \in [1..n -> AnyParentLists(n)]}

\* the locals of a running traversal: the function called, the while loop it
\* is in, q, the Set the loop adds to (seen or visited), A and bId of findLCA,
\* the ids getCommitRow was called with in this loop, and the id findLCA
\* returned (ancestorsSet returns seen)
Frame(op, loop, q, seen, A, bId, expanded, done, result) ==
  [op |-> op, loop |-> loop, q |-> q, seen |-> seen, A |-> A, bId |-> bId,
   expanded |-> expanded, done |-> done, result |-> result]

NoFrame == Frame("none", "none", <<>>, {}, {}, NULL, <<>>, TRUE, NULL)

InitLoop ==
  /\ \E n \in 1..MaxLoopGraph : commits \in AnyStores(n)
  /\ branches = [b \in {"main"} |-> Len(commits)]
  /\ inflight = [slot \in Slots |-> Idle]
  /\ last = NoFrame

\* a loop that passes over nothing but a missing id
skippedNullOnly(cur, seen) == cur = NULL

\* if (!cur || seen.has(cur)) continue;
skipped(cur, seen) == cur = NULL \/ cur \in seen

\* seen.add(cur); parentsOf(getCommitRow(cur)).forEach((p) => q.push(p))
expandPass(f) ==
  [f EXCEPT !.seen = @ \cup {Head(f.q)},
            !.expanded = Append(@, Head(f.q)),
            !.q = Tail(@) \o parentsOf(getCommitRow(Head(f.q)))]

\* one pass of ancestorsSet's while loop, or its return of seen when q is
\* empty; from inside findLCA the returned Set becomes A and the second loop
\* starts
ancestorsPass(f) ==
  IF f.q = <<>>
  THEN IF f.op = "ancestorsSet"
       THEN [f EXCEPT !.done = TRUE]
       ELSE [f EXCEPT !.loop = "findLCA", !.A = f.seen, !.q = <<f.bId>>,
                      !.seen = {}, !.expanded = <<>>]
  ELSE IF skipped(Head(f.q), f.seen) THEN [f EXCEPT !.q = Tail(@)]
  ELSE expandPass(f)

\* one pass of findLCA's while loop, or its return
lcaPass(f) ==
  IF f.q = <<>> THEN [f EXCEPT !.done = TRUE, !.result = NULL]
  ELSE IF skipped(Head(f.q), f.seen) THEN [f EXCEPT !.q = Tail(@)]
  ELSE IF Head(f.q) \in f.A THEN [f EXCEPT !.done = TRUE, !.result = Head(f.q)]
  ELSE expandPass(f)

\* ancestorsSet(startId) is entered
AncestorsSetEnter(startId) ==
  /\ last.done
  /\ last' = Frame("ancestorsSet", "ancestorsSet", <<startId>>, {}, {}, NULL,
                   <<>>, FALSE, NULL)
  /\ UNCHANGED <<commits, branches, inflight>>

\* findLCA(aId, bId) is entered: it returns at once without both ids, and
\* calls ancestorsSet(aId) otherwise
FindLCAEnter(aId, bId) ==
  /\ last.done
  /\ last' = IF aId = NULL \/ bId = NULL
             THEN Frame("findLCA", "none", <<>>, {}, {}, bId, <<>>, TRUE, NULL)
             ELSE Frame("findLCA", "ancestorsSet", <<aId>>, {}, {}, bId, <<>>,
                        FALSE, NULL)
  /\ UNCHANGED <<commits, branches, inflight>>

AncestorsSetPass ==
  /\ ~last.done
  /\ last.loop = "ancestorsSet"
  /\ last' = ancestorsPass(last)
  /\ UNCHANGED <<commits, branches, inflight>>

FindLCAPass ==
  /\ ~last.done
  /\ last.loop = "findLCA"
  /\ last' = lcaPass(last)
  /\ UNCHANGED <<commits, branches, inflight>>

NextLoop ==
  \/ \E startId \in RequestIds : AncestorsSetEnter(startId)
  \/ \E aId \in RequestIds, bId \in RequestIds : FindLCAEnter(aId, bId)
  \/ AncestorsSetPass
  \/ FindLCAPass

\* the loops run to completion once entered: nothing they do waits
SpecLoop ==
  InitLoop /\ [][NextLoop]_vars /\ WF_vars(AncestorsSetPass) /\ WF_vars(FindLCAPass)

(* ------------------- branch, edit, add a stop, merge ------------------ *)

\* the two-stop plan with stops that carry no id
PlanNoIds ==
  [days |-> <<DayOne(<<Without(StopLouvre, "id"), Without(StopEiffel, "id")>>)>>]

ScenarioSnapshots == {SnapOf(PlanTwoStops), SnapOf(PlanNoIds)}

\* the stay lengths an edit sets
StayValues == {"90"}

\* the stops an edit adds
NewStops == {StopOrsay, Without(StopMarais, "id")}

InitScenario ==
  /\ \E snap \in ScenarioSnapshots :
       commits = insertCommitWithKeyChange(<<>>, "system", "Initial commit",
                                           <<>>, snap)
  /\ branches = [b \in {"main"} |-> 1]
  /\ inflight = [slot \in Slots |-> Idle]
  /\ last = Resp("init", "ok", 1, NULL)

\* the stops of the first day of a branch's head plan
headStops(b) == stopsOf(daysOf(planOf(headSnapshot(headOf(b))))[1])

\* `gitrip branch -c name`: a branch created on the head of the current one
BranchFromHead(name, current) ==
  /\ current \in DOMAIN branches
  /\ CreateBranch(name, headOf(current))

\* a commit on the head of b that changes only stop i's stayMin
CommitStayEdit(b, i, v) ==
  /\ b \in DOMAIN branches
  /\ i \in 1..Len(headStops(b))
  /\ headStops(b)[i].stayMin # v
  /\ Commit(b, headOf(b),
            snapAfter(headSnapshot(headOf(b)),
                      EditStay(planOf(headSnapshot(headOf(b))), 1, i, v)))

\* a commit on the head of b that only adds a stop
CommitAddStop(b, st) ==
  /\ b \in DOMAIN branches
  /\ \A i \in 1..Len(headStops(b)) : Get(headStops(b)[i], "name") # st.name
  /\ Commit(b, headOf(b),
            snapAfter(headSnapshot(headOf(b)),
                      AddStop(planOf(headSnapshot(headOf(b))), 1, st)))

\* `gitrip merge -s source -t target`: the two heads are merged into target
MergeBranches(source, target) ==
  /\ source \in DOMAIN branches
  /\ target \in DOMAIN branches
  /\ source # target
  /\ Merge(headOf(source), headOf(target), target)

NextScenario ==
  \/ \E name \in BranchNames, current \in BranchNames : BranchFromHead(name, current)
  \/ \E b \in BranchNames, i \in 1..3, v \in StayValues :
       CommitStayEdit(b, i, v) /\ Capped(MaxScenarioCommits)
  \/ \E b \in BranchNames, st \in NewStops :
       CommitAddStop(b, st) /\ Capped(MaxScenarioCommits)
  \/ \E source \in BranchNames, target \in BranchNames :
       MergeBranches(source, target) /\ Capped(MaxScenarioCommits)

SpecScenario == InitScenario /\ [][NextScenario]_vars

(* -------------- mergeSnapshots and decisions on given snapshots ------- *)

\* the first stop arriving later, with base's departure
LouvreLate == [StopLouvre EXCEPT !.arrive = "10:30"]

\* the first stop with a longer stay, at base's times
LouvreLong == [StopLouvre EXCEPT !.stayMin = "90"]

\* the stops of the plans that are merged, in the order a day lists them
StopPool ==
  <<StopLouvre, LouvreLate, LouvreLong, Without(StopLouvre, "id"),
    Without(LouvreLong, "id"), StopEiffel, StopOrsay>>

\* the stops of the pool at the indices in S, in pool order
poolStops(S) ==
  LET sel == SelectSeq([i \in 1..Len(StopPool) |-> i], LAMBDA i : i \in S)
  IN [j \in 1..Len(sel) |-> StopPool[sel[j]]]

\* the plans that are merged: no plan, or one day of at most MaxDayStops stops
PlanInputs ==
  {NullPlan} \cup
  {[days |-> <<DayOne(poolStops(S))>>] :
     S \in {T \in SUBSET (1..Len(StopPool)) : Cardinality(T) <= MaxDayStops}}

\* the plans a merge starts from
BasePlans ==
  {NullPlan, PlanTwoStops, PlanNoIds, [days |-> <<DayOne(<<StopLouvre>>)>>],
   [days |-> <<DayOne(<<Without(StopLouvre, "id")>>)>>]}

\* the file maps that are merged: a path holds a text or null, or is absent
FileMapInputs ==
  UNION {[P -> {"draft", "final", NullVal}] : P \in SUBSET Range(PathOrder)}

\* base becomes the root commit, ours and theirs its children; alt is on ours
\* and main on theirs
storeOfThree(base, ours, theirs) ==
  insertCommitWithKeyChange(
    insertCommitWithKeyChange(
      insertCommitWithKeyChange(<<>>, "system", "Initial commit", <<>>, base),
      "cli", "update", <<1>>, ours),
    "cli", "update", <<1>>, theirs)

\* three stored snapshots that differ in their plans
InitPlans ==
  /\ \E b \in BasePlans, o \in PlanInputs, t \in PlanInputs :
       commits = storeOfThree(SnapOf(b), SnapOf(o), SnapOf(t))
  /\ branches = [b \in {"main", "alt"} |-> IF b = "main" THEN 3 ELSE 2]
  /\ inflight = [slot \in Slots |-> Idle]
  /\ last = Resp("init", "ok", NULL, NULL)

\* three stored snapshots that differ in their plans or in their file maps
InitThreeWay ==
  /\ \/ \E b \in BasePlans, o \in PlanInputs, t \in PlanInputs :
          commits = storeOfThree(SnapOf(b), SnapOf(o), SnapOf(t))
     \/ \E b \in FileMapInputs, o \in FileMapInputs, t \in FileMapInputs :
          commits = storeOfThree([files |-> b, plan |-> PlanTwoStops],
                                 [files |-> o, plan |-> PlanTwoStops],
                                 [files |-> t, plan |-> PlanTwoStops])
  /\ branches = [b \in {"main", "alt"} |-> IF b = "main" THEN 3 ELSE 2]
  /\ inflight = [slot \in Slots |-> Idle]
  /\ last = Resp("init", "ok", NULL, NULL)

\* mergeSnapshots is called on stored snapshots taken as base, ours and theirs
MergeSnapshotsCall(b, o, t) ==
  /\ last' = [op |-> "mergeSnapshots", base |-> b, ours |-> o, theirs |-> t,
              merged |-> mergeSnapshots(commits[b].snapshot, commits[o].snapshot,
                                        commits[t].snapshot)]
  /\ UNCHANGED <<commits, branches, inflight>>

\* the merge of alt into main is resolved with one choice for every conflict
ResolveThree(choice) == MergeResolve(1, 2, 3, "main", choice)

NextThreeWay ==
  \/ MergeSnapshotsCall(1, 2, 3)
  \/ \E c \in Ids : MergeSnapshotsCall(1, c, c)

SpecThreeWay == InitThreeWay /\ [][NextThreeWay]_vars

NextResolve == \E choice \in Choices : ResolveThree(choice)

SpecResolve == InitPlans /\ [][NextResolve]_vars

(* ------------------ computeKeyChange on given snapshots --------------- *)

\* stop i of the plans that are compared: every fourth has a name alone, the
\* same for all, the one before it has neither id nor name, the rest have ids
keyPoolStop(i) ==
  IF i % 4 = 0 THEN [name |-> "Cafe"]
  ELSE IF i % 4 = 3 THEN [lat |-> "48.86"]
  ELSE [id |-> "k" \o ToString(i), name |-> "Stop"]

\* the stops at the indices of S, in index order
keyStops(S) ==
  LET top == IF S = {} THEN 0 ELSE CHOOSE m \in S : \A x \in S : x <= m
      sel == SelectSeq([i \in 1..top |-> i], LAMBDA i : i \in S)
  IN [j \in 1..Len(sel) |-> keyPoolStop(sel[j])]

\* a plan of dayCount days holding the stops of S: the first three of the
\* pool on the first day, the others on the last
keyPlan(S, dayCount) ==
  IF dayCount = 0 THEN [days |-> <<>>]
  ELSE IF dayCount = 1 THEN [days |-> <<DayOne(keyStops(S))>>]
  ELSE [days |-> <<DayOne(keyStops(S \cap 1..3)),
                   [id |-> "d2", date |-> "2025-05-02",
                    stops |-> keyStops(S \ 1..3)]>>]

\* the parent snapshots: no plan, no day, an empty day, five stops on two
\* days, ten stops on two days, three stops on one day
KeyBaseSnapshots ==
  {[files |-> EmptyObj], SnapOf(keyPlan({}, 0)), SnapOf(keyPlan({}, 1)),
   SnapOf(keyPlan({1, 2, 3, 5, 6}, 2)), SnapOf(keyPlan(1..10, 2)),
   SnapOf(keyPlan({3, 4, 8}, 1))}

\* the snapshots committed on them
KeyNextSnapshots ==
  {[files |-> EmptyObj], SnapOf(keyPlan({}, 0))}
  \cup {SnapOf(keyPlan(S, dayCount)) :
          S \in SUBSET (1..MaxKeyStops), dayCount \in 1..2}

\* a parent commit and the commit made on it
InitKeyChange ==
  /\ \E base \in KeyBaseSnapshots, next \in KeyNextSnapshots :
       commits = insertCommitWithKeyChange(
                   insertCommitWithKeyChange(<<>>, "system", "Initial commit",
                                             <<>>, base),
                   "cli", "update", <<1>>, next)
  /\ branches = [b \in {"main"} |-> 2]
  /\ inflight = [slot \in Slots |-> Idle]
  /\ last = Resp("init", "ok", NULL, NULL)

\* computeKeyChange is called on the snapshots of two stored commits
ComputeKeyChangeCall(b, n) ==
  /\ last' = [op |-> "computeKeyChange", base |-> b, next |-> n,
              result |-> computeKeyChange(commits[b].snapshot, commits[n].snapshot)]
  /\ UNCHANGED <<commits, branches, inflight>>

NextKeyChange == ComputeKeyChangeCall(1, 2)

SpecKeyChange == InitKeyChange /\ [][NextKeyChange]_vars

(* ------------- reconciliation and resolutions on given plans ---------- *)

\* the first stop with a note added, at base's times and stay
LouvreNoted == With(StopLouvre, "note", "book ahead")

DayTwo(stops) == [id |-> "d2", date |-> "2025-05-02", stops |-> stops]

DayThree(stops) == [id |-> "d3", date |-> "2025-05-03", stops |-> stops]

\* the stops of the plans that are reconciled: one stop as four clients left
\* it, and a second stop
ReconcilePool == <<StopLouvre, LouvreLate, LouvreLong, LouvreNoted, StopEiffel>>

\* the stops of the pool at the indices in S, in pool order
reconcileStops(S) ==
  LET sel == SelectSeq([i \in 1..Len(ReconcilePool) |-> i], LAMBDA i : i \in S)
  IN [j \in 1..Len(sel) |-> ReconcilePool[sel[j]]]

\* a plan of two days, and the plans of two clients who each moved its first
\* stop to another day
MovedBase == [days |-> <<DayOne(<<StopEiffel, StopLouvre>>), DayTwo(<<StopOrsay>>)>>]

MovedToTwo == [days |-> <<DayOne(<<StopEiffel>>), DayTwo(<<StopOrsay, StopLouvre>>)>>]

MovedToThree ==
  [days |-> <<DayOne(<<StopEiffel>>), DayTwo(<<StopOrsay>>), DayThree(<<StopLouvre>>)>>]

\* the plans of ours and theirs: no plan, one day of at most MaxDayStops
\* stops, or a plan with a moved stop
ReconcilePlans ==
  {NullPlan, MovedToTwo, MovedToThree} \cup
  {[days |-> <<DayOne(reconcileStops(S))>>] :
     S \in {T \in SUBSET (1..Len(ReconcilePool)) : Cardinality(T) <= MaxDayStops}}

\* the plans a reconciliation starts from
ReconcileBases ==
  {NullPlan, [days |-> <<DayOne(<<StopLouvre>>)>>], PlanTwoStops, MovedBase}

\* the file maps of base, ours and theirs: no file, or a file that ours
\* rewrote and theirs deleted
ReconcileFiles ==
  {<<EmptyObj, EmptyObj, EmptyObj>>,
   <<[f \in {"notes.md"} |-> "draft"], [f \in {"notes.md"} |-> "final"],
     [f \in {"notes.md"} |-> NullVal]>>}

\* three stored snapshots: base is the root commit, alt is on ours, main on theirs
InitReconcile ==
  /\ \E b \in ReconcileBases, o \in ReconcilePlans, t \in ReconcilePlans,
        f \in ReconcileFiles :
       commits = storeOfThree([files |-> f[1], plan |-> b],
                              [files |-> f[2], plan |-> o],
                              [files |-> f[3], plan |-> t])
  /\ branches = [b \in {"main", "alt"} |-> IF b = "main" THEN 3 ELSE 2]
  /\ inflight = [slot \in Slots |-> Idle]
  /\ last = Resp("init", "ok", NULL, NULL)

\* req.body.resolutions: decisions with one choice for the conflicts at the
\* indices in S, under the conflict's type or, when not known, under a type
\* that no branch of the decisions loop tests for
decisionsAt(conflicts, S, choice, known) ==
  LET ds == decisionsFor(
              SelectSeq(conflicts,
                        LAMBDA c : \E i \in S : i <= Len(conflicts) /\ conflicts[i] = c),
              choice)
  IN [i \in 1..Len(ds) |->
        IF known THEN ds[i] ELSE [ds[i] EXCEPT !.type = "plan-stop-move"]]

\* the merge of alt into main is resolved with these decisions
ResolveWith(decisions) ==
  /\ Answer("merge-resolve", mergeResolveWith(1, 2, 3, "main", decisions))
  /\ UNCHANGED inflight

\* the resolutions a client can post for these conflicts: none, or decisions
\* for some of them
ResolutionsFor(conflicts) ==
  {<<>>} \cup
  {decisionsAt(conflicts, S, choice, known) :
     S \in SUBSET (1..Len(conflicts)) \ {{}}, choice \in Choices,
     known \in BOOLEAN}

NextReconcile ==
  \/ MergeSnapshotsCall(1, 2, 3)
  \/ \E decisions \in ResolutionsFor(mergeOfRows(1, 2, 3).conflicts) :
       Len(commits) = 3 /\ ResolveWith(decisions)

SpecReconcile == InitReconcile /\ [][NextReconcile]_vars

(* ============================== properties ============================ *)

\* the commits reachable over parent edges from the ids in S, S included
RECURSIVE Closure(_, _)
Closure(store, S) ==
  LET T == S \cup UNION {Range(parentsOf(getCommitRowIn(store, c))) : c \in S}
  IN IF T = S THEN S ELSE Closure(store, T)

\* a result that stores no commit and moves no head
StoreKept(r) == r.commits = commits /\ r.branches = branches

\* the result refuses with non_fast_forward, reporting this head
RefusedStale(r, head) ==
  /\ r.status = "non_fast_forward"
  /\ r.reported = head
  /\ StoreKept(r)

\* C1: in every reachable state, a commit or push (they share one handler
\* body) on an existing branch whose baseCommitId differs from the branch's
\* stored head (a missing baseCommitId differs from every head, the empty one
\* included) answers non_fast_forward with the stored head in it, stores no
\* commit and leaves every head where it was.
C1_StaleCommitOrPushFails ==
  \A b \in DOMAIN branches, base \in BaseIds, snap \in ClientSnapshots :
    branches[b] # base
      => RefusedStale(commitOrPushResult(b, base, snap), branches[b])

\* C1 witness: a commit on a branch whose head is a stored commit has just
\* been answered non_fast_forward with that head
C1_Witness ==
  /\ last.op = "commit"
  /\ last.status = "non_fast_forward"
  /\ last.reported \in Ids
  /\ \E b \in DOMAIN branches : branches[b] = last.reported

\* the result stores one commit with this snapshot, whose only parent is H (no
\* parent when H is the empty head), and makes it the head of b
WinsOver(r, b, H, snap) ==
  /\ r.status = "ok"
  /\ Len(r.commits) = Len(commits) + 1
  /\ SubSeq(r.commits, 1, Len(commits)) = commits
  /\ r.commits[Len(r.commits)].parents = (IF H = NULL THEN <<>> ELSE <<H>>)
  /\ r.commits[Len(r.commits)].snapshot = snap
  /\ r.branches = [branches EXCEPT ![b] = Len(r.commits)]
  /\ r.branches[b] # H

\* in every state, the request presenting the stored head wins and every
\* request presenting anything else is refused and stores nothing
C4_FirstWinsStaleLoses ==
  \A b \in DOMAIN branches, snap \in ClientSnapshots :
    /\ WinsOver(commitOrPushResult(b, branches[b], snap), b, branches[b], snap)
    /\ \A H \in BaseIds \ {branches[b]} :
         RefusedStale(commitOrPushResult(b, H, snap), branches[b])

\* in every step, a head that moves moves to a commit stored in that step, no
\* branch disappears and no stored commit changes
C4_HeadsOnlyMoveForward ==
  /\ \A other \in DOMAIN branches :
       branches'[other] # branches[other]
         => /\ Len(commits') = Len(commits) + 1
            /\ branches'[other] = Len(commits')
  /\ DOMAIN branches \subseteq DOMAIN branches'
  /\ Len(commits') >= Len(commits)
  /\ \A i \in 1..Len(commits) : commits'[i] = commits[i]

\* C4: of two commit/push requests on one branch that both present the stored
\* head H, the one handled first succeeds: its commit is stored, becomes the
\* head and has the single parent H (no parent when H is the empty head of a
\* branch created without one); from then on the head is never H again, since
\* a head only ever moves to a commit stored in the same step; so the other
\* request, handled at any later time, presents a head that differs from the
\* stored one, answers non_fast_forward and stores nothing. In both orders
\* exactly one succeeds.
C4_OneWinnerOneLoser ==
  []C4_FirstWinsStaleLoses /\ [][C4_HeadsOnlyMoveForward]_vars

\* C4 witness: a push has just been refused with the head it reports being a
\* commit that a request presenting H stored with the single parent H
C4_Witness ==
  /\ last.op = "push"
  /\ last.status = "non_fast_forward"
  /\ last.reported \in Ids
  /\ Len(commits[last.reported].parents) = 1
  /\ commits[last.reported].parents[1] \in Ids
  /\ commits[last.reported].snapshot \in ClientSnapshots

\* C2: in every step, on every branch whose head is a stored commit, that
\* commit is still reachable over parent edges from the branch's head after
\* the step (so every commit that was ever a head stays reachable).
C2_HeadsStayReachable ==
  [][\A b \in DOMAIN branches :
       branches[b] \in Ids => branches[b] \in Closure(commits', {branches'[b]})]_vars

\* C3: easy-save, restore, easy-add and planner run answer non_fast_forward
\* and leave every head unchanged when the request carries no expected head or
\* one that differs from the stored head (restore, easy-add and planner run
\* requests carry none).
C3_EveryWriterComparesHeads ==
  [][
      /\ \A b \in DOMAIN branches, parent \in MergeIds, plan \in ClientPlans :
           ((parent = NULL \/ parent # branches[b]) /\ EasySave(b, parent, plan))
             => (last'.status = "non_fast_forward" /\ branches' = branches)
      /\ \A b \in DOMAIN branches, c \in RequestIds :
           Restore(b, c)
             => (last'.status = "non_fast_forward" /\ branches' = branches)
      /\ \A slot \in Slots, plan \in PlannerPlans :
           EasyAddFinish(slot, plan)
             => (last'.status = "non_fast_forward" /\ branches' = branches)
      /\ \A slot \in Slots, plan \in PlannerPlans :
           PlannerRunFinish(slot, plan)
             => (last'.status = "non_fast_forward" /\ branches' = branches)
    ]_vars

\* the resolution is refused: an error status, no commit, no head moved
ResolutionRefused(r) ==
  /\ r.status \in {"bad_commits", "branch_not_found", "non_fast_forward"}
  /\ StoreKept(r)

\* C5: in every reachable state, for every rendered merge page whose target
\* branch's head is no longer the theirs commit the page was rendered with,
\* submitting the page's form is refused whatever the choices: no commit is
\* stored and no head moves.
C5_MovedTargetRejectsResolution ==
  \A slot \in Slots :
    (/\ inflight[slot].op = "merge-page"
     /\ headOf(inflight[slot].targetBranch) # inflight[slot].theirsId)
      => \A choice \in ResolveChoices :
           ResolutionRefused(
             mergeResolveResult(inflight[slot].baseId, inflight[slot].oursId,
                                inflight[slot].theirsId,
                                inflight[slot].targetBranch, choice))

\* C5 witness: a page rendered against a stored theirs commit was submitted
\* after the target moved, and the resolution was refused for that
C5_Witness ==
  /\ last.op = "merge-resolve"
  /\ last.status = "non_fast_forward"

\* C6: every commit stored by merge or merge-resolve has the parents
\* <<ours, theirs>>, theirs was the head of the target branch before the
\* request, and the target's head is the new commit after it.
C6_MergeParentsAndHead ==
  [][\A base \in Ids, o \in Ids, t \in MergeIds, b \in DOMAIN branches,
        choice \in ResolveChoices :
       (/\ Merge(o, t, b) \/ MergeResolve(base, o, t, b, choice)
        /\ Len(commits') > Len(commits))
         => /\ commits'[Len(commits')].parents = <<o, t>>
            /\ branches[b] = t
            /\ branches'[b] = Len(commits')]_vars

\* the stops of the first day of a snapshot's plan
firstDayStops(snap) == stopsOf(daysOf(planOf(snap))[1])

\* after is before with nothing but the stayMin of stop i changed
OnlyStayChanged(before, after, i) ==
  /\ i \in 1..Len(firstDayStops(before))
  /\ Len(firstDayStops(after)) = Len(firstDayStops(before))
  /\ firstDayStops(after)[i].stayMin # firstDayStops(before)[i].stayMin
  /\ after = [before EXCEPT !.plan.days[1].stops[i].stayMin =
                              firstDayStops(after)[i].stayMin]

\* after is before with nothing but one stop appended
OnlyStopAdded(before, after) ==
  /\ Len(firstDayStops(after)) = Len(firstDayStops(before)) + 1
  /\ after = [before EXCEPT !.plan.days[1].stops =
                Append(@, firstDayStops(after)[Len(firstDayStops(after))])]

\* alt's head c2 changes one stay of c1 and main's head c3 adds a stop to c1
EditAndAddFrom(c1, c2, c3, i) ==
  /\ commits[c2].parents = <<c1>>
  /\ commits[c3].parents = <<c1>>
  /\ OnlyStayChanged(commits[c1].snapshot, commits[c2].snapshot, i)
  /\ OnlyStopAdded(commits[c1].snapshot, commits[c3].snapshot)

\* the stop is in the list, whatever id the merge gave either of them
HasStop(stops, stop) ==
  \E k \in 1..Len(stops) : Without(stops[k], "id") = Without(stop, "id")

\* the merge stores a commit with parents <<c2, c3>> whose plan has both the
\* stay of c2's stop i and the stop c3 added, and makes it main's head
MergedBoth(r, c2, c3, i) ==
  /\ r.status = "ok"
  /\ Len(r.commits) = Len(commits) + 1
  /\ r.commits[Len(r.commits)].parents = <<c2, c3>>
  /\ r.branches["main"] = Len(r.commits)
  /\ HasStop(firstDayStops(r.commits[Len(r.commits)].snapshot),
             firstDayStops(commits[c2].snapshot)[i])
  /\ HasStop(firstDayStops(r.commits[Len(r.commits)].snapshot),
             firstDayStops(commits[c3].snapshot)
               [Len(firstDayStops(commits[c3].snapshot))])
  /\ Len(firstDayStops(r.commits[Len(r.commits)].snapshot))
       = Len(firstDayStops(commits[c3].snapshot))

LinearHistory == \A c \in Ids : Len(commits[c].parents) <= 1

\* C8: in a store where every commit has at most one parent, for stored
\* commits a and b with a reachable from b over parent edges (or a = b),
\* findLCA(a, b) and findLCA(b, a) are both a.
C8_LinearMergeBase ==
  LinearHistory
    => \A a \in Ids, b \in Ids :
         a \in Closure(commits, {b})
           => findLCA(a, b) = a /\ findLCA(b, a) = a

\* C8 witness: in a chain of three commits findLCA was asked for a commit
\* and a proper ancestor of it, and answered the ancestor
C8_Witness ==
  /\ LinearHistory
  /\ Len(commits) >= 3
  /\ last.op = "findLCA"
  /\ last.aId \in Ids
  /\ last.bId \in Ids
  /\ last.aId # last.bId
  /\ last.aId \in Closure(commits, {last.bId})
  /\ last.base = last.aId

\* C9: for stored commits a and b, findLCA(a, b) is non-null exactly when
\* ancestorsSet(a) and ancestorsSet(b) have an id in common, a non-null
\* answer is in both sets, and each set has its own start in it.
C9_MergeBaseIffCommonAncestor ==
  \A a \in Ids, b \in Ids :
    /\ (findLCA(a, b) # NULL) <=> (ancestorsSet(a) \cap ancestorsSet(b) # {})
    /\ findLCA(a, b) # NULL
         => findLCA(a, b) \in ancestorsSet(a) \cap ancestorsSet(b)
    /\ a \in ancestorsSet(a)
    /\ b \in ancestorsSet(b)

\* C9 witness: findLCA was asked for two stored commits of which neither is
\* an ancestor of the other and answered a third commit, which both reach
C9_Witness ==
  /\ last.op = "findLCA"
  /\ last.aId \in Ids
  /\ last.bId \in Ids
  /\ last.base \in Ids \ {last.aId, last.bId}
  /\ last.base \in ancestorsSet(last.aId) \cap ancestorsSet(last.bId)

\* no commit is reachable over parent edges from both ids
NoCommonAncestor(o, t) == Closure(commits, {o}) \cap Closure(commits, {t}) = {}

\* the merge is refused; for want of a base when the request gets that far
RefusedForBase(r, t, b) ==
  /\ StoreKept(r)
  /\ r.status \in {"missing_commits", "branch_not_found",
                   "non_fast_forward", "no_common_base"}
  /\ (t # NULL /\ b \in DOMAIN branches /\ branches[b] \in {NULL, t})
       => r.status = "no_common_base"

\* C10: in every reachable state, a merge request whose ours and theirs have
\* no common ancestor stores no commit, moves no head and answers an error;
\* the error is no_common_base whenever the request gets as far as the merge
\* base, that is when it names both commits and an existing target branch
\* whose head has not moved away from theirs.
C10_NoCommonBaseStopsMerge ==
  \A o \in Ids, t \in MergeIds, b \in BranchNames :
    NoCommonAncestor(o, t) => RefusedForBase(mergeResult(o, t, b), t, b)

\* C10 witness: a merge of two stored commits was refused for want of a base
C10_Witness ==
  /\ last.op = "merge"
  /\ last.status = "no_common_base"
  /\ Len(commits) >= 2

\* the snapshot of stored commit c
snapshotOf(c) == commits[c].snapshot

\* the conflicts of the plan tier among these
planConflicts(conflicts) ==
  SelectSeq(conflicts, LAMBDA c : c.type \in {"plan-whole", "plan-stop-time",
                                              "plan-stop-delete"})

\* the merge reports no conflict and its plan is this one
CleanWithPlan(m, plan) == m.conflicts = <<>> /\ planOf(m.snapshot) = plan

\* C11: for every stored base snapshot and every stored snapshot S,
\* mergeSnapshots(base, S, S) reports no conflict and returns S's plan.
C11_SameSidesMergeClean ==
  \A b \in Ids, c \in Ids :
    CleanWithPlan(mergeSnapshots(snapshotOf(b), snapshotOf(c), snapshotOf(c)),
                  planOf(snapshotOf(c)))

\* C11 witness: mergeSnapshots was called with ours and theirs the same
\* snapshot, whose plan or files differ from base's, and returned that plan
\* without conflicts
C11_Witness ==
  /\ last.op = "mergeSnapshots"
  /\ last.ours = last.theirs
  /\ \/ planOf(snapshotOf(last.ours)) \notin {NullPlan, planOf(snapshotOf(1))}
     \/ filesOf(snapshotOf(last.ours)) # filesOf(snapshotOf(1))
  /\ last.merged.conflicts = <<>>
  /\ planOf(last.merged.snapshot) = planOf(snapshotOf(last.ours))

\* the merge returns this plan and reports no conflict of the plan tier
PlanTakenWhole(m, plan) ==
  planOf(m.snapshot) = plan /\ planConflicts(m.conflicts) = <<>>

\* C12: when exactly one of ours and theirs has a plan that differs from
\* base's, mergeSnapshots returns that side's plan and reports no plan-whole,
\* plan-stop-time or plan-stop-delete conflict.
C12_OneSideChangedTakesIt ==
  \A b \in Ids, o \in Ids, t \in Ids :
    /\ (planOf(snapshotOf(o)) # planOf(snapshotOf(b))
        /\ planOf(snapshotOf(t)) = planOf(snapshotOf(b)))
         => PlanTakenWhole(
              mergeSnapshots(snapshotOf(b), snapshotOf(o), snapshotOf(t)),
              planOf(snapshotOf(o)))
    /\ (planOf(snapshotOf(t)) # planOf(snapshotOf(b))
        /\ planOf(snapshotOf(o)) = planOf(snapshotOf(b)))
         => PlanTakenWhole(
              mergeSnapshots(snapshotOf(b), snapshotOf(o), snapshotOf(t)),
              planOf(snapshotOf(t)))

\* C12 witness: mergeSnapshots was called with theirs' plan equal to base's
\* and ours' plan different, and returned ours' plan
C12_Witness ==
  /\ last.op = "mergeSnapshots"
  /\ last.ours = 2
  /\ last.theirs = 3
  /\ planOf(snapshotOf(3)) = planOf(snapshotOf(1))
  /\ planOf(snapshotOf(2)) \notin {NullPlan, planOf(snapshotOf(1))}
  /\ planOf(snapshotOf(1)) # NullPlan
  /\ planOf(last.merged.snapshot) = planOf(snapshotOf(2))
  /\ last.merged.conflicts = <<>>

\* the value of a path in a file map, absent and null both meaning deleted
fileValue(files, k) ==
  IF Get(files, k) \in {Undef, NullVal} THEN "#deleted" ELSE Get(files, k)

\* the file conflicts the merge reports for path k
fileConflicts(m, k) ==
  SelectSeq(m.conflicts, LAMBDA c : c.type = "file" /\ c.path = k)

\* the merged map holds value v for path k, a deleted path being absent
MergedFileIs(m, k, v) ==
  IF v = "#deleted" THEN k \notin DOMAIN filesOf(m.snapshot)
  ELSE k \in DOMAIN filesOf(m.snapshot) /\ filesOf(m.snapshot)[k] = v

\* path k is merged as the file tier is said to merge it
FileMergedAsSaid(m, k, b, o, t) ==
  IF o # b /\ t = b THEN MergedFileIs(m, k, o)
  ELSE IF o = b /\ t # b THEN MergedFileIs(m, k, t)
  ELSE IF o = b /\ t = b THEN MergedFileIs(m, k, b)
  ELSE IF o = t THEN MergedFileIs(m, k, o)
  ELSE Len(fileConflicts(m, k)) = 1 /\ MergedFileIs(m, k, b)

\* C13: for every path of the base, ours or theirs file map (absent or null
\* meaning deleted), the merged map has ours' value when only ours differs
\* from base, theirs' when only theirs differs, the common value when both
\* differ identically, base's when neither differs, and base's together with
\* exactly one file conflict when both differ from base and from each other;
\* a path whose value is a deletion is absent from the merged map.
C13_FilesMergePerPath ==
  \A k \in DOMAIN filesOf(snapshotOf(1)) \cup DOMAIN filesOf(snapshotOf(2))
             \cup DOMAIN filesOf(snapshotOf(3)) :
    FileMergedAsSaid(
      mergeSnapshots(snapshotOf(1), snapshotOf(2), snapshotOf(3)), k,
      fileValue(filesOf(snapshotOf(1)), k), fileValue(filesOf(snapshotOf(2)), k),
      fileValue(filesOf(snapshotOf(3)), k))

\* the plan-whole conflicts among these
wholeConflicts(conflicts) == SelectSeq(conflicts, LAMBDA c : c.type = "plan-whole")

\* the plans are pairwise different and both sides' fingerprints left base's
BothDiverged(bp, op, tp) ==
  /\ bp # op /\ bp # tp /\ op # tp
  /\ planKeySet(op) # planKeySet(bp)
  /\ planKeySet(tp) # planKeySet(bp)

\* the two fingerprint sets are less than 0.4 similar
SimilarityBelowTwoFifths(a, b) ==
  5 * Cardinality(a \cap b) < 2 * Cardinality(a \cup b)

\* what the merge of diverged plans is said to return
DivergedMergedAsSaid(m, bp, op, tp) ==
  IF SimilarityBelowTwoFifths(planKeySet(op), planKeySet(tp))
  THEN /\ Len(planConflicts(m.conflicts)) = 1
       /\ planConflicts(m.conflicts)[1].type = "plan-whole"
       /\ planOf(m.snapshot) = bp
  ELSE wholeConflicts(m.conflicts) = <<>>

\* C14: when the three plans are pairwise different and both ours' and
\* theirs' fingerprint sets differ from base's, a similarity of ours' and
\* theirs' fingerprints below 0.4 gives exactly one plan conflict, of type
\* plan-whole, and base's plan as the merged plan; a similarity of 0.4 or
\* more gives no plan-whole conflict.
C14_DivergedPlansAskWhole ==
  BothDiverged(planOf(snapshotOf(1)), planOf(snapshotOf(2)), planOf(snapshotOf(3)))
    => DivergedMergedAsSaid(
         mergeSnapshots(snapshotOf(1), snapshotOf(2), snapshotOf(3)),
         planOf(snapshotOf(1)), planOf(snapshotOf(2)), planOf(snapshotOf(3)))

\* C14 witness: mergeSnapshots was called on plans that share one stop of
\* three, both having left base's fingerprints, and reported plan-whole alone
C14_Witness ==
  /\ last.op = "mergeSnapshots"
  /\ last.ours = 2
  /\ last.theirs = 3
  /\ BothDiverged(planOf(snapshotOf(1)), planOf(snapshotOf(2)),
                  planOf(snapshotOf(3)))
  /\ Cardinality(planKeySet(planOf(snapshotOf(2)))
                   \cap planKeySet(planOf(snapshotOf(3)))) = 1
  /\ Cardinality(planKeySet(planOf(snapshotOf(2)))
                   \cup planKeySet(planOf(snapshotOf(3)))) = 3
  /\ Len(last.merged.conflicts) = 1
  /\ last.merged.conflicts[1].type = "plan-whole"
  /\ planOf(last.merged.snapshot) = planOf(snapshotOf(1))

\* the day of a plan with this id, or a day without stops
dayOfPlan(plan, dayId) ==
  findDay(daysOf(plan), dayId, [id |-> dayId, stops |-> <<>>])

\* the key the merge files stop x of this day under
keyInDay(x, day) == stableId(x, Or(Get(day, "id"), Get(day, "date")))

\* stop x as the merge hands it on: with its key as id when it had none
keyed(x, day) ==
  IF Truthy(Get(x, "id")) THEN x ELSE With(x, "id", keyInDay(x, day))

\* the day of this id of the plan has a stop equal to x
PlanHasStop(plan, dayId, x) ==
  \E i \in 1..Len(stopsOf(dayOfPlan(plan, dayId))) :
    stopsOf(dayOfPlan(plan, dayId))[i] = x

\* the day of this id of the plan has a stop filed under key sid
PlanHasKey(plan, dayId, sid) ==
  \E i \in 1..Len(stopsOf(dayOfPlan(plan, dayId))) :
    keyInDay(stopsOf(dayOfPlan(plan, dayId))[i], dayOfPlan(plan, dayId)) = sid

\* tp is bp with only the stayMin of stop xi of day di changed
OnlyStayEdited(bp, tp, di, xi) ==
  /\ Len(daysOf(tp)) = Len(daysOf(bp))
  /\ Len(stopsOf(daysOf(tp)[di])) = Len(stopsOf(daysOf(bp)[di]))
  /\ "stayMin" \in DOMAIN tp.days[di].stops[xi]
  /\ tp.days[di].stops[xi].stayMin # Get(bp.days[di].stops[xi], "stayMin")
  /\ tp = [bp EXCEPT !.days[di].stops[xi] =
             With(@, "stayMin", tp.days[di].stops[xi].stayMin)]

\* ours has day di of base and no stop filed under the key of its stop xi
OursLacksStop(bp, op, di, xi) ==
  /\ \E j \in 1..Len(daysOf(op)) : Get(daysOf(op)[j], "id") = Get(bp.days[di], "id")
  /\ ~PlanHasKey(op, Get(bp.days[di], "id"),
                 keyInDay(bp.days[di].stops[xi], bp.days[di]))

\* the per-stop conflicts the merge reports for stop sid of day dayId
stopConflicts(conflicts, dayId, sid) ==
  SelectSeq(conflicts, LAMBDA c : Get(c, "dayId") = dayId /\ Get(c, "stopId") = sid)

\* the merge reports one conflict for the stop, a plan-stop-delete, and keeps x
DeleteConflictKeepsBase(m, dayId, sid, x) ==
  /\ Len(stopConflicts(m.conflicts, dayId, sid)) = 1
  /\ stopConflicts(m.conflicts, dayId, sid)[1].type = "plan-stop-delete"
  /\ PlanHasStop(planOf(m.snapshot), dayId, x)

\* the delete of stop xi of day di against its edit is reported and resolved as said
DeleteVersusEditAsSaid(bp, tp, di, xi) ==
  /\ DeleteConflictKeepsBase(
       mergeSnapshots(snapshotOf(1), snapshotOf(2), snapshotOf(3)),
       Get(bp.days[di], "id"), keyInDay(bp.days[di].stops[xi], bp.days[di]),
       keyed(bp.days[di].stops[xi], bp.days[di]))
  /\ PlanHasStop(planOf(resolvedSnapshot(1, 2, 3, "theirs")),
                 Get(bp.days[di], "id"),
                 keyed(tp.days[di].stops[xi], bp.days[di]))
  /\ ~PlanHasKey(planOf(resolvedSnapshot(1, 2, 3, "ours")),
                 Get(bp.days[di], "id"),
                 keyInDay(bp.days[di].stops[xi], bp.days[di]))

\* a stop of base's plan that ours lacks and of which theirs edited stayMin only
DeletedAndEdited(bp, op, tp, di, xi) ==
  /\ di \in 1..Len(daysOf(bp))
  /\ xi \in 1..Len(stopsOf(daysOf(bp)[di]))
  /\ OnlyStayEdited(bp, tp, di, xi)
  /\ OursLacksStop(bp, op, di, xi)

OnlyArriveEdited(bp, op, di, xi) ==
  /\ Len(daysOf(op)) = Len(daysOf(bp))
  /\ Len(stopsOf(daysOf(op)[di])) = Len(stopsOf(daysOf(bp)[di]))
  /\ "arrive" \in DOMAIN op.days[di].stops[xi]
  /\ op.days[di].stops[xi].arrive # Get(bp.days[di].stops[xi], "arrive")
  /\ op = [bp EXCEPT !.days[di].stops[xi] =
             With(@, "arrive", op.days[di].stops[xi].arrive)]

\* the merge reports no conflict for the stop and its plan holds stop x
StopMergedClean(m, dayId, sid, x) ==
  /\ stopConflicts(m.conflicts, dayId, sid) = <<>>
  /\ PlanHasStop(planOf(m.snapshot), dayId, x)

\* C16: when ours changed only the arrive of a stop of base (10:00 to 10:30,
\* same depart) and theirs changed only its stayMin, the merge reports no
\* conflict for the stop and the merged stop has theirs' stayMin with ours'
\* arrive and depart.
C16_TimeAndStayMergeAutomatically ==
  \A di \in 1..Len(daysOf(planOf(snapshotOf(1)))) :
    \A xi \in 1..Len(stopsOf(daysOf(planOf(snapshotOf(1)))[di])) :
      (/\ OnlyArriveEdited(planOf(snapshotOf(1)), planOf(snapshotOf(2)), di, xi)
       /\ OnlyStayEdited(planOf(snapshotOf(1)), planOf(snapshotOf(3)), di, xi))
        => StopMergedClean(
             mergeSnapshots(snapshotOf(1), snapshotOf(2), snapshotOf(3)),
             Get(planOf(snapshotOf(1)).days[di], "id"),
             keyInDay(planOf(snapshotOf(1)).days[di].stops[xi],
                      planOf(snapshotOf(1)).days[di]),
             With(keyed(planOf(snapshotOf(2)).days[di].stops[xi],
                        planOf(snapshotOf(1)).days[di]),
                  "stayMin", planOf(snapshotOf(3)).days[di].stops[xi].stayMin))

\* the bag of the stop identities of a plan
identityBag(plan) ==
  [k \in Range(countedKeys(daysOf(plan))) |->
     countOf(countedKeys(daysOf(plan)), k)]

\* the stops of a plan and its days
totalOf(snap) == Len(countedKeys(daysOf(planOf(snap))))

dayCountOf(snap) == Len(daysOf(planOf(snap)))

\* stop identities that next has more of than base
addedStops(base, next) ==
  BagCardinality(identityBag(planOf(next)) (-) identityBag(planOf(base)))

\* pctChange >= 30%, with pctChange 100% on an empty base that gains stops
\* and 0 when base and next are both empty
PctChangeAtLeast30(baseTotal, nextTotal) ==
  IF baseTotal = 0 THEN nextTotal > 0
  ELSE 10 * Abs(nextTotal - baseTotal) >= 3 * baseTotal

\* autoFlag is as said
AutoFlagAsSaid(r, base, next) ==
  (r.auto = 1) <=>
    \/ addedStops(base, next) + addedStops(next, base) >= 3
    \/ Abs(dayCountOf(next) - dayCountOf(base)) >= 1
    \/ PctChangeAtLeast30(totalOf(base), totalOf(next))

\* the endings a reason has after its part on the stops when no day changed
ReasonTails ==
  {""} \cup {" | Total stops change: " \o ToString(p) \o "%" : p \in 0..1000}

\* five stops on two days to nine stops on two days
ExampleAsSaid(r, base, next) ==
  (/\ totalOf(base) = 5 /\ dayCountOf(base) = 2
   /\ totalOf(next) = 9 /\ dayCountOf(next) = 2)
    => /\ r.score >= 4
       /\ r.auto = 1
       /\ addedStops(next, base) = 0
            => \E tail \in ReasonTails :
                 r.reason = "Stops changed: +4 / -0" \o tail

\* the score with 2 added when 10 * |nextTotal - baseTotal| >= 3 * baseTotal
ScoreByProducts(r, base, next) ==
  r.score = addedStops(base, next) + addedStops(next, base)
            + 2 * Abs(dayCountOf(next) - dayCountOf(base))
            + (IF 10 * Abs(totalOf(next) - totalOf(base)) >= 3 * totalOf(base)
               THEN 2 ELSE 0)

\* the score with 2 added when pctChange >= 30%
ScoreByPctChange(r, base, next) ==
  r.score = addedStops(base, next) + addedStops(next, base)
            + 2 * Abs(dayCountOf(next) - dayCountOf(base))
            + (IF PctChangeAtLeast30(totalOf(base), totalOf(next)) THEN 2 ELSE 0)

\* score, autoFlag and the example, the score by products
KeyChangeByProducts(r, base, next) ==
  /\ ScoreByProducts(r, base, next)
  /\ AutoFlagAsSaid(r, base, next)
  /\ ExampleAsSaid(r, base, next)

\* score, autoFlag and the example, the score by pctChange
KeyChangeByPctChange(r, base, next) ==
  /\ ScoreByPctChange(r, base, next)
  /\ AutoFlagAsSaid(r, base, next)
  /\ ExampleAsSaid(r, base, next)

exceptManualFlag(row) == [row EXCEPT !.keyChangeManual = 0]

\* this step leaves every stored commit stored, with all its fields but the
\* manual flag, and changes a manual flag only in a key-change
CommitsFrozenStep ==
  \A c \in Ids :
    /\ c \in 1..Len(commits')
    /\ exceptManualFlag(commits'[c]) = exceptManualFlag(commits[c])
    /\ commits'[c].keyChangeManual # commits[c].keyChangeManual
         => last'.op = "key-change"

\* C18: no request changes the parents, snapshot, author, message, creation
\* time, key-change score, autoFlag or reason of a stored commit; the manual
\* flag is the only field that changes, and only in a key-change request.
C18_StoredCommitsFrozen == [][CommitsFrozenStep]_vars

\* C18 witness: the root commit's manual flag was set and a writer then
\* stored a commit
C18_Witness ==
  /\ commits[1].keyChangeManual = 1
  /\ Len(commits) >= 2
  /\ last.op \notin {"init", "key-change"}
  /\ last.status = "ok"
  /\ last.commitId = Len(commits)

\* C19: in every reachable state, each parent id of a stored commit is the id
\* of a stored commit, also for commits made on a branch that was created
\* from a caller-supplied fromCommitId.
C19_ParentsAreStored ==
  \A c \in Ids : \A i \in 1..Len(commits[c].parents) : commits[c].parents[i] \in Ids

\* base, ours and theirs are after the call what they were before it
InputsKept(m, base, ours, theirs) ==
  m.base = base /\ m.ours = ours /\ m.theirs = theirs

\* C20: after mergeSnapshots(base, ours, theirs) returns, base, ours and
\* theirs, with every stop of their plans, are equal to what they were before
\* the call, for all inputs, stops without an id included.
C20_MergeLeavesInputs ==
  InputsKept(mergeSnapshots(snapshotOf(1), snapshotOf(2), snapshotOf(3)),
             snapshotOf(1), snapshotOf(2), snapshotOf(3))

\* the stored commits that both a and b reach over parent edges
CommonAncestors(a, b) == Closure(commits, {a}) \cap Closure(commits, {b}) \cap Ids

\* the common ancestors of a and b of which no other one is a descendant
LowestCommonAncestors(a, b) ==
  {c \in CommonAncestors(a, b) :
     \A d \in CommonAncestors(a, b) \ {c} : c \notin Closure(commits, {d})}

\* C21: for stored commits a and b that have exactly one lowest common
\* ancestor, findLCA(a, b) is that commit: no other common ancestor of a and
\* b is a proper descendant of the answer, merge commits included.
C21_FindLCAIsLowest ==
  \A a \in Ids, b \in Ids :
    Cardinality(LowestCommonAncestors(a, b)) = 1
      => findLCA(a, b) \in LowestCommonAncestors(a, b)

\* the resolution stores a commit computed from the merge base of ours and theirs
ResolvedFromMergeBase(r, baseId, oursId, theirsId) ==
  r.status = "ok" => baseId = findLCA(oursId, theirsId)

\* C22: in every reachable state, a merge-resolve request that stores a commit
\* computed its snapshot with findLCA(ours, theirs) as base: a base id of the
\* request that is not that merge base is never used for a committed snapshot
\* (merge takes its base from findLCA itself).
C22_CommittedMergeUsesMergeBase ==
  \A baseId \in Ids, o \in Ids, t \in Ids, b \in BranchNames,
     choice \in ResolveChoices :
    ResolvedFromMergeBase(mergeResolveResult(baseId, o, t, b, choice),
                          baseId, o, t)

\* the fingerprint entry by id first: date::id, date::name for a stop without id
entryByIdFirst(day, s) ==
  Or(Get(day, "date"), "") \o "::"
    \o Or(Or(Get(s, "id"), ""), Trim(Or(Get(s, "name"), "")))

\* the plan with stop (di, si) given another name
Renamed(plan, di, si, name) == [plan EXCEPT !.days[di].stops[si].name = name]

\* C23: for every stored plan, the fingerprint entry of each stop is date::id
\* when the stop has an id and date::name when it has none, and giving a stop
\* that has an id another name leaves the plan's fingerprint set as it was.
C23_FingerprintByIdFirst ==
  \A c \in Ids :
    \A di \in 1..Len(daysOf(planOf(snapshotOf(c)))) :
      \A si \in 1..Len(stopsOf(daysOf(planOf(snapshotOf(c)))[di])) :
        LET plan == planOf(snapshotOf(c))
            day == daysOf(plan)[di]
            s == stopsOf(day)[si]
        IN /\ planKey(day, s) = entryByIdFirst(day, s)
           /\ Truthy(Get(s, "id"))
                => planKeySet(Renamed(plan, di, si, "Musee du Louvre"))
                     = planKeySet(plan)

\* the stop the merge files under key sid in the day of this id: the last one
\* of the day with that key, as the merge hands it on, or none
stopOfKey(plan, dayId, sid) ==
  LET day == dayOfPlan(plan, dayId)
      at == {i \in 1..Len(stopsOf(day)) : keyInDay(stopsOf(day)[i], day) = sid}
  IN IF at = {} THEN NoStop
     ELSE keyed(stopsOf(day)[CHOOSE i \in at : \A j \in at : j <= i], day)

\* the three plans differ pairwise and the merge did not ask for a whole plan:
\* it went through the per-day, per-stop reconciliation
Reconciled(m, bp, op, tp) ==
  /\ bp # op /\ bp # tp /\ op # tp
  /\ wholeConflicts(m.conflicts) = <<>>

\* every field of ours, and the fields of theirs that ours lacks
oursOverTheirs(os, ts) ==
  [k \in DOMAIN os \cup DOMAIN ts |-> IF k \in DOMAIN os THEN os[k] ELSE ts[k]]

\* the merge reports one conflict for the stop, a plan-stop-time, and keeps x
TimeConflictKeepsBase(m, dayId, sid, x) ==
  /\ Len(stopConflicts(m.conflicts, dayId, sid)) = 1
  /\ stopConflicts(m.conflicts, dayId, sid)[1].type = "plan-stop-time"
  /\ PlanHasStop(planOf(m.snapshot), dayId, x)

\* a stop that base, ours and theirs have and both sides changed is merged as said
BothChangedAsSaid(m, dayId, sid, bs, os, ts) ==
  (bs # NoStop /\ os # NoStop /\ ts # NoStop /\ os # bs /\ ts # bs)
    => IF Get(os, "arrive") = Get(ts, "arrive")
          /\ Get(os, "depart") = Get(ts, "depart")
       THEN StopMergedClean(m, dayId, sid, oursOverTheirs(os, ts))
       ELSE TimeConflictKeepsBase(m, dayId, sid, bs)

\* every stop key of base's days is merged as said by m
ReconciledAsSaid(m, bp, op, tp) ==
  Reconciled(m, bp, op, tp)
    => \A di \in 1..Len(daysOf(bp)) :
         \A xi \in 1..Len(stopsOf(daysOf(bp)[di])) :
           LET dayId == Get(bp.days[di], "id")
               sid == keyInDay(bp.days[di].stops[xi], bp.days[di])
           IN BothChangedAsSaid(m, dayId, sid, stopOfKey(bp, dayId, sid),
                                stopOfKey(op, dayId, sid),
                                stopOfKey(tp, dayId, sid))

\* C24: when the three stored plans are reconciled per stop, a stop that base,
\* ours and theirs all have and that both sides changed is merged without a
\* conflict into ours' fields plus the fields of theirs that ours lacks if
\* ours' and theirs' arrive and depart are equal, and otherwise raises exactly
\* one plan-stop-time conflict while the merged plan keeps base's stop.
C24_BothChangedStop ==
  ReconciledAsSaid(mergeSnapshots(snapshotOf(1), snapshotOf(2), snapshotOf(3)),
                   planOf(snapshotOf(1)), planOf(snapshotOf(2)),
                   planOf(snapshotOf(3)))

\* C24 witness: mergeSnapshots was called on a base stop that ours gave a
\* longer stay and theirs a note at the same times, and answered without a
\* conflict the stop with ours' stay and theirs' note
C24_Witness ==
  /\ last.op = "mergeSnapshots"
  /\ last.ours = 2
  /\ last.theirs = 3
  /\ planOf(snapshotOf(1)) = [days |-> <<DayOne(<<StopLouvre>>)>>]
  /\ planOf(snapshotOf(2)) = [days |-> <<DayOne(<<LouvreLong>>)>>]
  /\ planOf(snapshotOf(3)) = [days |-> <<DayOne(<<LouvreNoted>>)>>]
  /\ last.merged.conflicts = <<>>
  /\ planOf(last.merged.snapshot).days[1].stops
       = <<With(LouvreLong, "note", "book ahead")>>

\* the stored plan of the side a choice names
planOfSide(choice) ==
  planOf(snapshotOf(IF choice = "ours" THEN 2 ELSE IF choice = "theirs" THEN 3 ELSE 1))

\* the stops of a day other than the one filed under key sid
otherStops(day, sid) ==
  SelectSeq(stopsOf(day), LAMBDA x : keyInDay(x, day) # sid)

\* final is the merged snapshot but for the stop of conflict c
OnlyStopOf(c, merged, final) ==
  /\ filesOf(final) = filesOf(merged)
  /\ Len(daysOf(planOf(final))) = Len(daysOf(planOf(merged)))
  /\ \A di \in 1..Len(daysOf(planOf(merged))) :
       LET dm == daysOf(planOf(merged))[di]
           df == daysOf(planOf(final))[di]
       IN /\ Without(df, "stops") = Without(dm, "stops")
          /\ IF Get(dm, "id") = c.dayId
             THEN otherStops(df, c.stopId) = otherStops(dm, c.stopId)
             ELSE stopsOf(df) = stopsOf(dm)

\* the stop of conflict c is in final with the times of the chosen side's
\* stop ps and the other fields of the merger's default
StopTimedAs(c, merged, final, ps) ==
  LET x == stopOfKey(planOf(final), c.dayId, c.stopId)
      d == objOf(stopOfKey(planOf(merged), c.dayId, c.stopId))
  IN /\ x # NoStop
     /\ Get(objOf(x), "arrive") = Get(ps, "arrive")
     /\ Get(objOf(x), "depart") = Get(ps, "depart")
     /\ \A k \in (DOMAIN objOf(x) \cup DOMAIN d) \ {"arrive", "depart"} :
          Get(objOf(x), k) = Get(d, k)

\* one decision for time conflict i of the merge m, with this choice, does
\* what is said
TimeDecisionAsSaid(m, i, choice) ==
  LET c == m.conflicts[i]
      final == resolvedWith(1, 2, 3, decisionsAt(m.conflicts, {i}, choice, TRUE))
      ps == stopOfKey(planOfSide(choice), c.dayId, c.stopId)
  IN /\ OnlyStopOf(c, m.snapshot, final)
     /\ ps # NoStop => StopTimedAs(c, m.snapshot, final, ps)

\* the ids of the stops of a plan, day after day
stopIdsOf(plan) ==
  LET ids(day) == [i \in 1..Len(stopsOf(day)) |-> Get(stopsOf(day)[i], "id")]
      RECURSIVE from(_)
      from(di) == IF di > Len(daysOf(plan)) THEN <<>>
                  ELSE ids(daysOf(plan)[di]) \o from(di + 1)
  IN from(1)

\* no stop id occurs twice in the plan
UniqueStopIds(plan) ==
  \A i \in 1..Len(stopIdsOf(plan)), j \in 1..Len(stopIdsOf(plan)) :
    stopIdsOf(plan)[i] = stopIdsOf(plan)[j] => i = j

\* every time conflict of the merge m of plans that list no stop id twice is
\* decided as said
TimeDecisionsAsSaid(m) ==
  (\A c \in 1..3 : UniqueStopIds(planOf(snapshotOf(c))))
    => \A i \in 1..Len(m.conflicts) :
         m.conflicts[i].type = "plan-stop-time"
           => \A choice \in Choices : TimeDecisionAsSaid(m, i, choice)

\* C25: for every plan-stop-time conflict of the merge of stored snapshots
\* whose plans list no stop id twice, also a conflict for a stop that ours and
\* theirs added and base lacks,
\* one decision with choice c leaves the stop in the final plan with the
\* arrive and depart of side c's stop and its other fields as the merge left
\* them, and changes no other stop, no day and no file.
C25_TimeDecisionSetsTimesOnly == TimeDecisionsAsSaid(mergeOfRows(1, 2, 3))

\* the merge request gets as far as the three-way merge: the target exists,
\* its head has not moved away from theirs, and ours and theirs have a stored
\* base
ReachesMerge(o, t, b) ==
  /\ b \in DOMAIN branches
  /\ branches[b] \in {NULL, t}
  /\ getCommitRow(findLCA(o, t)) # NoRow

\* the result stores one commit with m's snapshot, the merge of o into t, and
\* moves b's head, and no other, onto it
MergeCommitted(r, m, o, t, b) ==
  /\ r.status = "ok"
  /\ Len(r.commits) = Len(commits) + 1
  /\ SubSeq(r.commits, 1, Len(commits)) = commits
  /\ r.commits[Len(r.commits)].parents = <<o, t>>
  /\ r.commits[Len(r.commits)].snapshot = m.snapshot
  /\ r.branches = [branches EXCEPT ![b] = Len(r.commits)]

\* the result of a merge request is the one said for the merge m
MergeAnsweredAsSaid(r, m, o, t, b) ==
  IF m.conflicts = <<>> THEN MergeCommitted(r, m, o, t, b)
  ELSE r.status = "conflicts" /\ StoreKept(r)

\* C26: in every reachable state, a merge request for stored commits that
\* gets as far as the three-way merge stores a merge commit and moves the
\* target's head onto it exactly when the merge of base, ours and theirs has
\* no conflict; with conflicts it answers them, stores no commit and moves no
\* head; a request that does not get that far stores nothing.
C26_MergeCommitsIffNoConflicts ==
  \A o \in Ids, t \in Ids, b \in BranchNames :
    IF ReachesMerge(o, t, b)
    THEN MergeAnsweredAsSaid(mergeResult(o, t, b),
                             mergeOfRows(findLCA(o, t), o, t), o, t, b)
    ELSE mergeResult(o, t, b).status # "ok" /\ StoreKept(mergeResult(o, t, b))

\* C26 witness: the merge of two stored commits that changed the same stop's
\* times differently was answered with conflicts, and nothing was stored
C26_Witness ==
  /\ last.op = "merge"
  /\ last.status = "conflicts"
  /\ Len(commits) = 3
  /\ \E b \in DOMAIN branches : branches[b] = 3

\* the stored commits reachable from c over one or more parent edges
properAncestors(c) == Closure(commits, Range(parentsOf(getCommitRow(c)))) \cap Ids

\* C27: in every state reachable by branch creation, commit, push, easy save,
\* restore, planner and easy-add commits, merge and merge-resolve, no stored
\* commit is reachable from itself over one or more parent edges.
C27_ParentsAcyclic == \A c \in Ids : c \notin properAncestors(c)

\* a merge commit is stored, one of whose parents has a parent of its own
C27_Witness ==
  \E c \in Ids :
    /\ Len(getCommitRow(c).parents) = 2
    /\ \E p \in properAncestors(c) : properAncestors(p) # {}
    /\ C27_ParentsAcyclic

\* no id occurs twice in the sequence
NoRepeats(seq) == \A i \in 1..Len(seq), j \in 1..Len(seq) : seq[i] = seq[j] => i = j

\* the loop that is running has called getCommitRow at most once for each id
ExpandedOnce == NoRepeats(last.expanded)

\* C28: on every store of commits, parent edges in any direction and parent
\* ids that no stored commit has included, each while loop of ancestorsSet
\* and findLCA expands an id at most once, and every call of ancestorsSet or
\* findLCA that is entered returns.
C28_TraversalsTerminate == [](ExpandedOnce) /\ ((~last.done) ~> last.done)

\* C28 witness: findLCA returned null for two commits on a parent cycle that
\* one commit with a parent no commit has cannot reach, as the recursive
\* definition of findLCA answers, after expanding both commits of the cycle
C28_Witness ==
  /\ last.op = "findLCA"
  /\ last.done
  /\ Len(commits) = 2
  /\ commits[1].parents = <<1>>
  /\ commits[2].parents = <<Unknown>>
  /\ last.bId = 2
  /\ last.A = {1}
  /\ last.expanded = <<2, Unknown>>
  /\ last.result = NULL
  /\ last.result = findLCA(1, 2)

\* the merge m of plans that list no stop id twice, when it reports no
\* conflict, lists no stop id twice
MergedIdsUnique(m) ==
  ((\A c \in 1..3 : UniqueStopIds(planOf(snapshotOf(c)))) /\ m.conflicts = <<>>)
    => UniqueStopIds(planOf(m.snapshot))

\* C29: when each of the base, ours and theirs plans lists every stop id at
\* most once and the merge of the three stored snapshots reports no conflict,
\* the merged plan lists every stop id at most once across all its days, also
\* when ours and theirs each moved one stop to a different day.
C29_MergedStopIdsUnique == MergedIdsUnique(mergeOfRows(1, 2, 3))

\* decision d names conflict c: its type and its location
decides(d, c) ==
  /\ d.type = c.type
  /\ c.type = "file" => d.path = c.path
  /\ c.type \in {"plan-stop-time", "plan-stop-delete"}
       => d.dayId = c.dayId /\ d.stopId = c.stopId

\* the snapshot holds base's value where conflict c is: base's file value,
\* base's plan, or base's stop (none when base has none)
DefaultKept(c, final, baseSnap) ==
  IF c.type = "file"
  THEN Get(filesOf(final), c.path) = Get(filesOf(baseSnap), c.path)
  ELSE IF c.type = "plan-whole" THEN planOf(final) = planOf(baseSnap)
  ELSE findStop(final, c.dayId, c.stopId)
         = stopOfKey(planOf(baseSnap), c.dayId, c.stopId)

\* the resolution of the merge m of commits 2 and 3 over base 1 into main
\* with these decisions stores the merge commit and moves main to it, and the
\* commit holds base's value for every conflict no decision names
ResolvedAsPosted(m, decisions) ==
  LET r == mergeResolveWith(1, 2, 3, "main", decisions)
      stored(final) ==
        /\ final.parents = <<2, 3>>
        /\ \A i \in 1..Len(m.conflicts) :
             (\A k \in 1..Len(decisions) : ~decides(decisions[k], m.conflicts[i]))
               => DefaultKept(m.conflicts[i], final.snapshot, snapshotOf(1))
  IN /\ r.status = "ok"
     /\ Len(r.commits) = Len(commits) + 1
     /\ SubSeq(r.commits, 1, Len(commits)) = commits
     /\ r.branches = [branches EXCEPT !["main"] = Len(commits) + 1]
     /\ stored(r.commits[Len(r.commits)])

ResolvedAsPostedAll(m) ==
  \A decisions \in ResolutionsFor(m.conflicts) : ResolvedAsPosted(m, decisions)

\* C30: while main is on theirs, a merge-resolve of stored base, ours and
\* theirs with any posted decisions (none, decisions for some conflicts only,
\* decisions of a type the loop does not know) stores the merge commit with
\* parents [ours, theirs] and moves main to it, and for every conflict of the
\* recomputed merge that no decision names the committed snapshot holds
\* base's value there: base's file value, base's stop, or base's plan.
C30_UndecidedKeepDefault ==
  branches["main"] = 3 => ResolvedAsPostedAll(mergeOfRows(1, 2, 3))

\* C30 witness: a merge with a file conflict and a stop conflict was resolved
\* without an effective decision; the commit stored holds the merger's
\* snapshot and main is on it
C30_Witness ==
  /\ last.op = "merge-resolve"
  /\ last.status = "ok"
  /\ Len(commits) = 4
  /\ branches["main"] = 4
  /\ commits[4].parents = <<2, 3>>
  /\ commits[4].snapshot = mergeOfRows(1, 2, 3).snapshot
  /\ \E i \in 1..Len(mergeOfRows(1, 2, 3).conflicts) :
       mergeOfRows(1, 2, 3).conflicts[i].type = "file"
  /\ \E i \in 1..Len(mergeOfRows(1, 2, 3).conflicts) :
       /\ mergeOfRows(1, 2, 3).conflicts[i].type = "plan-stop-time"
       /\ DefaultKept(mergeOfRows(1, 2, 3).conflicts[i], commits[4].snapshot,
                      snapshotOf(1))
       /\ findStop(commits[4].snapshot, mergeOfRows(1, 2, 3).conflicts[i].dayId,
                   mergeOfRows(1, 2, 3).conflicts[i].stopId) # NoStop

====
